---- MODULE Spec2Model ----
(***************************************************************************)
(* A model of @telemetry-js/publisher-cloudwatch: the RequestBuilder       *)
(* (lib/req-builder.js) that serialises metrics into bounded request       *)
(* bodies and drives their delivery, and the CloudWatchPublisher plugin    *)
(* (index.js) on top of it.                                                *)
(*                                                                         *)
(* Strings.  A JavaScript string given to the builder is modelled as a    *)
(* text (a sequence of one-character strings) repeated rep times, so that  *)
(* a 20 000 byte name is [txt |-> <<"x">>, rep |-> 20000].  Percent-       *)
(* encoding works character by character, so it maps over txt and keeps    *)
(* rep.  An encoded value is kept as [s, rep]: the encoded text as a TLA+  *)
(* string, repeated rep times.  Keys, which the code never encodes, are    *)
(* TLA+ strings.                                                           *)
(***************************************************************************)
EXTENDS Integers, Sequences, FiniteSets, TLC

(* ------------------------------------------------------------------ *)
(* Program constants (lib/req-builder.js:13-26)                        *)
(* ------------------------------------------------------------------ *)
MAX_ATTEMPTS == 10
TOO_MANY_REQUESTS == 429
REQ_DATUM_LIMIT == 20
REQ_BYTE_LIMIT == 40 * 1024
RECOVERABLE_NET_ERRORS ==
  {"EAI_AGAIN", "ENOTFOUND", "ETIMEDOUT", "ESOCKETTIMEDOUT",
   "ECONNREFUSED", "ECONNRESET", "EHOSTUNREACH", "EPIPE"}

(* ------------------------------------------------------------------ *)
(* Strings and their encoding                                          *)
(* ------------------------------------------------------------------ *)
Str(t, r) == [txt |-> t, rep |-> r]
EmptyStr == Str(<<>>, 0)
IsEmptyStr(s) == s.rep = 0 \/ s.txt = <<>>

\* The characters of a text, joined into one string.
RECURSIVE Join(_)
Join(t) == IF t = <<>> THEN "" ELSE Head(t) \o Join(Tail(t))

\* querystring.escape, one character: the unreserved characters of the
\* model's alphabet stay (among them ! ' ( ) *), the others become %XX.
escChar(c) ==
  CASE c = ":" -> <<"%", "3", "A">>
    [] c = " " -> <<"%", "2", "0">>
    [] c = "&" -> <<"%", "2", "6">>
    [] c = "=" -> <<"%", "3", "D">>
    [] c = "%" -> <<"%", "2", "5">>
    [] OTHER -> <<c>>

RECURSIVE escText(_)
escText(t) == IF t = <<>> THEN <<>> ELSE escChar(Head(t)) \o escText(Tail(t))

esc(s) == Str(escText(s.txt), s.rep)

rfc3986Char(c) ==
  CASE c = "!" -> <<"%", "2", "1">>
    [] c = "'" -> <<"%", "2", "7">>
    [] c = "(" -> <<"%", "2", "8">>
    [] c = ")" -> <<"%", "2", "9">>
    [] c = "*" -> <<"%", "2", "A">>
    [] OTHER -> <<c>>

RECURSIVE rfc3986Text(_)
rfc3986Text(t) ==
  IF t = <<>> THEN <<>> ELSE rfc3986Char(Head(t)) \o rfc3986Text(Tail(t))

\* An encoding that leaves ! ' ( ) * as they are.
encodeRfc3986Identity(s) == s

\* This function assumes the string has already been percent encoded.
encodeRfc3986(s) == Str(rfc3986Text(s.txt), s.rep)

\* encodeKeyValue(key, value): key + '=' + encodeRfc3986(esc(value)); it
\* throws when key is empty (encodeKeyValueThrows).  txt holds the
\* characters of the encoded text that val.s joins.  `of` and `raw` are
\* history tags: the add call that produced the pair (0: the request
\* preamble) and the text of the value given.
encodeKeyValueThrows(key) == key = ""
KeyValue(key, enc, of, raw) ==
  [key |-> key, val |-> [s |-> Join(enc.txt), rep |-> enc.rep],
   of |-> of, raw |-> raw, txt |-> enc.txt]
encodeKeyValue(key, value, of) ==
  KeyValue(key, encodeRfc3986(esc(value)), of, value.txt)

\* Buffer.byteLength of key + '=' + value.
KVLen(kv) == Len(kv.key) + 1 + Len(kv.val.s) * kv.val.rep

\* Number.prototype.toString for the naturals of the model.
Digit(d) == <<"0", "1", "2", "3", "4", "5", "6", "7", "8", "9">>[d + 1]
RECURSIVE DigitsOf(_)
DigitsOf(n) == IF n < 10 THEN <<Digit(n)>> ELSE Append(DigitsOf(n \div 10), Digit(n % 10))
NumToString(n) == Str(DigitsOf(n), 1)

\* date.toISOString() with the milliseconds stripped, for new Date(1).
IsoEpoch ==
  Str(<<"1", "9", "7", "0", "-", "0", "1", "-", "0", "1", "T",
        "0", "0", ":", "0", "0", ":", "0", "0", "Z">>, 1)

\* units.get(unit).longName of @telemetry-js/metric.
UnitLongName(unit) ==
  CASE unit = "count" -> Str(<<"C", "o", "u", "n", "t">>, 1)
    [] unit = "bytes" -> Str(<<"B", "y", "t", "e", "s">>, 1)
    [] unit = "seconds" -> Str(<<"S", "e", "c", "o", "n", "d", "s">>, 1)
    [] OTHER -> Str(<<"N", "o", "n", "e">>, 1)

(* ------------------------------------------------------------------ *)
(* State                                                               *)
(* ------------------------------------------------------------------ *)
VARIABLES
  options,     \* the options the publisher was constructed with
  chain,       \* the RequestBuilder and its _child, _child._child, ...
  _datum,      \* RequestBuilder._datum of the root builder
  calls,       \* history: number of add calls made so far (the call's id)
  pending,     \* history: ids of the add calls that returned, not yet drained
  lastAdd,     \* history: [id, err, type, metric] of the latest add call
  odds,        \* history: number of add calls that were not of the stream
  sends,       \* one record per send() call, in call order (see NewSend)
  signer,      \* RequestSigner: the state of _credentials
  _backgroundFlushing,   \* CloudWatchPublisher._backgroundFlushing
  listeners,   \* the once('_flush', ...) listeners, in registration order
  stops,       \* history: per stop() call, how often its callback ran
  pings,       \* history: per ping() call, the flush it started (0: none)
  emitted,     \* history: the errors emitted as 'error' events
  credentialsCache,  \* the signing keys cached by all signers, by cache key
  signed       \* history: the signatures made, with what was signed

vars ==
  <<options, chain, _datum, calls, pending, lastAdd, odds, sends, signer,
    _backgroundFlushing, listeners, stops, pings, emitted, credentialsCache,
    signed>>

(* ------------------------------------------------------------------ *)
(* RequestBuilder: accumulators                                        *)
(* ------------------------------------------------------------------ *)
\* _body is a string; the model keeps it as the sequence of its segments:
\* the preamble (n = 0) and then one segment per datum (n = its member
\* index).  _body = <<>> is the empty string.
Segment(n, kvs) == [n |-> n, kvs |-> kvs]

\* `&MetricData.member.${n}.`
MemberPrefix(n) == "&MetricData.member." \o ToString(n) \o "."

RECURSIVE SumKVLenFrom(_, _)
SumKVLenFrom(kvs, k) ==
  IF k > Len(kvs) THEN 0 ELSE KVLen(kvs[k]) + SumKVLenFrom(kvs, k + 1)
SumKVLen(kvs) == SumKVLenFrom(kvs, 1)

\* Buffer.byteLength of prefix + datum.join(prefix) for the member index n,
\* a datum of `count` pairs whose key=value strings take kvBytes bytes.
\* The body is ASCII: every value is percent-encoded and the keys are ASCII
\* literals.
DatumBytes(n, count, kvBytes) ==
  IF count = 0
    THEN Len(MemberPrefix(n))
    ELSE count * Len(MemberPrefix(n)) + kvBytes

\* Buffer.byteLength of one segment of a body.
SegmentBytes(seg) ==
  IF seg.n = 0
    THEN SumKVLen(seg.kvs) + (Len(seg.kvs) - 1)                 \* joined by '&'
    ELSE DatumBytes(seg.n, Len(seg.kvs), SumKVLen(seg.kvs))

RECURSIVE BodyBytesFrom(_, _)
BodyBytesFrom(body, k) ==
  IF k > Len(body) THEN 0 ELSE SegmentBytes(body[k]) + BodyBytesFrom(body, k + 1)
BodyBytes(body) == BodyBytesFrom(body, 1)

\* _reset(): the fields of a builder after a reset (and after construction).
\* _reset also assigns _datum = []; only the root's _datum is ever used, and
\* send clears it with the chain.
_reset == [_body |-> <<>>, _byteLength |-> 0, _datumCount |-> 0]

\* The head of a request: Action, Version and Namespace.
Preamble(namespace) ==
  Segment(0, <<encodeKeyValue("Action", Str(<<"P", "u", "t", "M", "e", "t", "r", "i", "c", "D", "a", "t", "a">>, 1), 0),
               encodeKeyValue("Version", Str(<<"2", "0", "1", "0", "-", "0", "8", "-", "0", "1">>, 1), 0),
               encodeKeyValue("Namespace", namespace, 0)>>)

\* A test that looks at the count only.
ExceedsLimitsCountOnly(datumCount, byteLength, datumBytes) ==
  datumCount >= REQ_DATUM_LIMIT

\* The test of _addDatum: the builder is full, or the datum does not fit.
ExceedsLimitsOffByOne(datumCount, byteLength, datumBytes) ==
  datumCount > REQ_DATUM_LIMIT \/ byteLength + datumBytes > REQ_BYTE_LIMIT

ExceedsLimits(datumCount, byteLength, datumBytes) ==
  datumCount >= REQ_DATUM_LIMIT \/ byteLength + datumBytes > REQ_BYTE_LIMIT

\* _addDatum(datum, splitRequest) on builder i of the chain ch; the result is
\* the chain afterwards and the error thrown ("none" when it returned).
\* A throw leaves the assignments made before it in place.  kvBytes is
\* SumKVLen(datum), which every builder of the chain computes anew.
RECURSIVE AddDatumAt(_, _, _, _, _, _)
AddDatumAt(ch, i, datum, kvBytes, splitRequest, namespace) ==
  LET b0 == ch[i]
      b1 == IF b0._body = <<>>
              THEN [b0 EXCEPT !._body = <<Preamble(namespace)>>,
                              !._byteLength = BodyBytes(<<Preamble(namespace)>>)]
              ELSE b0
      ch1 == [ch EXCEPT ![i] = b1]
      byteLength == DatumBytes(b1._datumCount + 1, Len(datum), kvBytes)
  IN IF ExceedsLimits(b1._datumCount, b1._byteLength, byteLength)
       THEN IF ~splitRequest
              THEN [chain |-> ch1, err |-> "Datum is too big"]
              ELSE IF i = Len(ch1)                               \* _child === null
                THEN AddDatumAt(Append(ch1, _reset), i + 1, datum, kvBytes, FALSE, namespace)
                ELSE AddDatumAt(ch1, i + 1, datum, kvBytes, TRUE, namespace)
       ELSE [chain |-> [ch1 EXCEPT ![i] =
                          [_body |-> Append(b1._body, Segment(b1._datumCount + 1, datum)),
                           _byteLength |-> b1._byteLength + byteLength,
                           _datumCount |-> b1._datumCount + 1]],
             err |-> "none"]

_addDatum(ch, i, datum, splitRequest, namespace) ==
  AddDatumAt(ch, i, datum, SumKVLen(datum), splitRequest, namespace)

\* hasData() of builder b.
hasData(b) == b._byteLength # 0

(* ------------------------------------------------------------------ *)
(* RequestBuilder: adding a metric                                     *)
(* ------------------------------------------------------------------ *)
\* A metric of @telemetry-js/metric, as far as the builder reads it:
\*   type        "single" | "summary" | "other"   (isSingle(), isSummary())
\*   name, unit  the metric's name (a string) and unit
\*   date        "epoch" (new Date(1)) | "null"
\*   resolution  "60" | "1" | "null" | "5"        (5: neither 1 nor 60)
\*   value       the value of a single metric
\*   stats       [sum, min, max, count] of a summary metric
\*   tags        the dimensions in the order `for (name in tags)` visits
\*               them: [name, vt, value] with vt the type of the value,
\*               "string" | "null" | "number"
Metric(type, name, date, resolution, value, stats, tags) ==
  [type |-> type, name |-> name, unit |-> "count", date |-> date,
   resolution |-> resolution, value |-> value, stats |-> stats, tags |-> tags]

Stats(sum, min, max, count) == [sum |-> sum, min |-> min, max |-> max, count |-> count]
Tag(name, vt, value) == [name |-> name, vt |-> vt, value |-> value]

\* _addDatumKeyValue(key, value): this._datum.push(encodeKeyValue(key, value))
_addDatumKeyValue(datum, key, value, id) == Append(datum, encodeKeyValue(key, value, id))

\* _addDatumProps(metricName, date, unit, resolution)
_addDatumProps(datum, m, id) ==
  IF m.date = "null"
    THEN [datum |-> datum, err |-> "Date is required"]
    ELSE LET d1 == _addDatumKeyValue(datum, "MetricName", m.name, id)
             d2 == _addDatumKeyValue(d1, "Unit", UnitLongName(m.unit), id)
             d3 == _addDatumKeyValue(d2, "Timestamp", IsoEpoch, id)
         IN IF m.resolution = "1"
              THEN [datum |-> _addDatumKeyValue(d3, "StorageResolution", Str(<<"1">>, 1), id),
                    err |-> "none"]
              ELSE IF m.resolution # "null" /\ m.resolution # "60"
                THEN [datum |-> d3, err |-> "resolution must be one of 1 (high) or 60 seconds (normal)"]
                ELSE [datum |-> d3, err |-> "none"]

\* _addDatumValue(value)
_addDatumValue(datum, value, id) == _addDatumKeyValue(datum, "Value", NumToString(value), id)

\* _addDatumStatisticSet(sum, min, max, count)
_addDatumStatisticSet(datum, sum, min, max, count, id) ==
  LET d1 == _addDatumKeyValue(datum, "StatisticValues.Sum", NumToString(sum), id)
      d2 == _addDatumKeyValue(d1, "StatisticValues.Minimum", NumToString(min), id)
      d3 == _addDatumKeyValue(d2, "StatisticValues.Maximum", NumToString(max), id)
  IN _addDatumKeyValue(d3, "StatisticValues.SampleCount", NumToString(count), id)

\* A loop in which a dropped dimension takes up a member index.
RECURSIVE DimensionsLoopByPosition(_, _, _, _, _)
DimensionsLoopByPosition(datum, tags, k, dimensionIndex, id) ==
  IF k > Len(tags)
    THEN [datum |-> datum, err |-> "none"]
    ELSE LET name == tags[k].name
             prefix == "Dimensions.member." \o ToString(k) \o "."
         IN IF IsEmptyStr(name)
              THEN [datum |-> datum, err |-> "dimension name cannot be empty"]
              ELSE IF tags[k].vt = "null" \/ (tags[k].vt = "string" /\ IsEmptyStr(tags[k].value))
                THEN DimensionsLoopByPosition(datum, tags, k + 1, dimensionIndex, id)
                ELSE IF tags[k].vt # "string"
                  THEN [datum |-> datum, err |-> "dimension value must be a string"]
                  ELSE DimensionsLoopByPosition(
                         _addDatumKeyValue(
                           _addDatumKeyValue(datum, prefix \o "Name", name, id),
                           prefix \o "Value", tags[k].value, id),
                         tags, k + 1, dimensionIndex + 1, id)

\* _addDatumDimensions(dimensions): the loop from the k-th dimension on, with
\* dimensionIndex the next member index to give out.
RECURSIVE DimensionsLoop(_, _, _, _, _)
DimensionsLoop(datum, tags, k, dimensionIndex, id) ==
  IF k > Len(tags)
    THEN [datum |-> datum, err |-> "none"]
    ELSE LET name == tags[k].name
             prefix == "Dimensions.member." \o ToString(dimensionIndex) \o "."
         IN IF IsEmptyStr(name)
              THEN [datum |-> datum, err |-> "dimension name cannot be empty"]
              ELSE IF tags[k].vt = "null" \/ (tags[k].vt = "string" /\ IsEmptyStr(tags[k].value))
                THEN DimensionsLoop(datum, tags, k + 1, dimensionIndex, id)
                ELSE IF tags[k].vt # "string"
                  THEN [datum |-> datum, err |-> "dimension value must be a string"]
                  ELSE DimensionsLoop(
                         _addDatumKeyValue(
                           _addDatumKeyValue(datum, prefix \o "Name", name, id),
                           prefix \o "Value", tags[k].value, id),
                         tags, k + 1, dimensionIndex + 1, id)

_addDatumDimensions(datum, tags, id) == DimensionsLoop(datum, tags, 1, 1, id)

\* _endDatum(): the array is emptied only when _addDatum returned.
_endDatum(datum, ch, namespace) ==
  LET r == _addDatum(ch, 1, datum, TRUE, namespace)
  IN [datum |-> IF r.err = "none" THEN <<>> ELSE datum, chain |-> r.chain, err |-> r.err]

\* addSingleMetric(metric): [datum, chain, err] after the call.
addSingleMetric(datum, ch, namespace, m, id) ==
  LET p == _addDatumProps(datum, m, id)
      d == _addDatumDimensions(_addDatumValue(p.datum, m.value, id), m.tags, id)
  IN IF p.err # "none"
       THEN [datum |-> p.datum, chain |-> ch, err |-> p.err]
       ELSE IF d.err # "none"
         THEN [datum |-> d.datum, chain |-> ch, err |-> d.err]
         ELSE _endDatum(d.datum, ch, namespace)

\* A summary that serialises the statistics as supplied, whatever the count.
addSummaryMetricAsSupplied(datum, ch, namespace, m, id) ==
  LET p == _addDatumProps(datum, m, id)
      d == _addDatumDimensions(
             _addDatumStatisticSet(p.datum, m.stats.sum, m.stats.min, m.stats.max,
                                   m.stats.count, id), m.tags, id)
  IN IF p.err # "none"
       THEN [datum |-> p.datum, chain |-> ch, err |-> p.err]
       ELSE IF d.err # "none"
         THEN [datum |-> d.datum, chain |-> ch, err |-> d.err]
         ELSE _endDatum(d.datum, ch, namespace)

\* addSummaryMetric(metric): [datum, chain, err] after the call.
addSummaryMetric(datum, ch, namespace, m, id) ==
  LET p == _addDatumProps(datum, m, id)
      zero == m.stats.count = 0
      sum == IF zero THEN 0 ELSE m.stats.sum
      min == IF zero THEN 0 ELSE m.stats.min
      max == IF zero THEN 0 ELSE m.stats.max
      d == _addDatumDimensions(
             _addDatumStatisticSet(p.datum, sum, min, max, m.stats.count, id), m.tags, id)
  IN IF p.err # "none"
       THEN [datum |-> p.datum, chain |-> ch, err |-> p.err]
       ELSE IF d.err # "none"
         THEN [datum |-> d.datum, chain |-> ch, err |-> d.err]
         ELSE _endDatum(d.datum, ch, namespace)

\* CloudWatchPublisher.publish(metric)
publish(datum, ch, namespace, m, id) ==
  IF m.type = "single" THEN addSingleMetric(datum, ch, namespace, m, id)
  ELSE IF m.type = "summary" THEN addSummaryMetric(datum, ch, namespace, m, id)
  ELSE [datum |-> datum, chain |-> ch, err |-> "none"]

(* ------------------------------------------------------------------ *)
(* RequestSigner, as far as the builder depends on it                  *)
(* ------------------------------------------------------------------ *)
\* _credentials is "undefined" (never loaded), "noexp" (loaded, without
\* expiration), "fresh" (now < expiration - 30 s) or "stale".
\* A test that takes credentials without expiration for stale.
hasFreshCredentialsWithExpiration(sg) == sg = "fresh"

hasFreshCredentials(sg) == sg \in {"noexp", "fresh"}

(* ------------------------------------------------------------------ *)
(* Errors                                                              *)
(* ------------------------------------------------------------------ *)
Err(message, code) == [message |-> message, code |-> code]
Null == Err("null", "null")                      \* null / undefined
HttpError(statusCode) == Err("HTTP " \o ToString(statusCode), "undefined")
\* A timeout error that carries a recoverable code.
SocketTimeoutWithCode == Err("Socket timeout", "ESOCKETTIMEDOUT")

\* new Error(`Socket timeout (${this._requestTimeout}ms)`)
SocketTimeout == Err("Socket timeout", "undefined")
NetError(code) == Err(code, code)
\* statusCode is undefined when finish is called by 'error' or 'timeout'.
NoStatus == 0

(* ------------------------------------------------------------------ *)
(* RequestBuilder: send                                                *)
(* ------------------------------------------------------------------ *)
\* The mutable state the handlers below act on, as one record:
\*   chain, datum (_datum of the root), pending, sends, signer, bf (_backgroundFlushing), listeners,
\*   stops, emitted.
\*
\* A send record:
\*   batch       the bodies snapshotted by send()
\*   done        whose callback `done` is: "user" (a flush(callback) call) or
\*               "bg" (_backgroundFlushCallback)
\*   phase       "tick"     process.nextTick(done) is pending
\*               "refresh"  the signer is loading credentials
\*               "request"  an HTTPS request is in flight
\*               "timer"    the retry timer is pending
\*               "done"     done was called
\*   cur         [batchIndex, attempt, firstError] of the _sendBatch call
\*               the phase belongs to; with called (finish's counter) it is
\*               the closure of the request in flight
\*   aborted     the closure of a request that timed out and was aborted,
\*               while its 'error' event may still come
\*   history: ids (the add calls drained), tries (https.request calls per
\*   body), fin/berr (per body: finished, and with which error), tmo (per
\*   body: tries when it timed out), last (the latest finish that ran),
\*   doneCalls and result (calls of done, and its argument).
Closure(batchIndex, attempt, firstError, called) ==
  [batchIndex |-> batchIndex, attempt |-> attempt, firstError |-> firstError,
   called |-> called]
NoClosure == Closure(0, 0, Null, 0)
NoLast == [batchIndex |-> 0, attempt |-> 0, err |-> Null, statusCode |-> NoStatus, retry |-> FALSE]

NewSend(batch, ids, done) ==
  [batch |-> batch, ids |-> ids, done |-> done, phase |-> "new",
   cur |-> NoClosure, aborted |-> NoClosure,
   tries |-> [b \in 1..Len(batch) |-> 0],
   fin |-> [b \in 1..Len(batch) |-> FALSE],
   berr |-> [b \in 1..Len(batch) |-> Null],
   tmo |-> [b \in 1..Len(batch) |-> 0],
   last |-> NoLast, doneCalls |-> 0, result |-> Null, open |-> 0,
   emits |-> 0, wire |-> [b \in 1..Len(batch) |-> <<>>]]

\* A request that transmits what the root accumulator holds when the
\* request is made.
RequestOfChain(w, sid, batchIndex, attempt, firstError) ==
  [w EXCEPT !.sends[sid].phase = "request",
            !.sends[sid].cur = Closure(batchIndex, attempt, firstError, 0),
            !.sends[sid].tries[batchIndex + 1] = @ + 1,
            !.sends[sid].open = @ + 1,
            !.sends[sid].emits = @ + 1,
            !.sends[sid].wire[batchIndex + 1] = Append(@, w.chain[1]._body)]

\* The request that follows a successful sign(): emit('send'),
\* https.request(...), request.end(body), where body is the body given to
\* sign(), batch[batchIndex].  Histories: `open` counts the requests of
\* the send that were made and have not yet answered, failed or been
\* aborted, `emits` the 'send' notifications, and `wire` keeps the bodies
\* transmitted for each body of the batch.
Request(w, sid, batchIndex, attempt, firstError) ==
  [w EXCEPT !.sends[sid].phase = "request",
            !.sends[sid].cur = Closure(batchIndex, attempt, firstError, 0),
            !.sends[sid].tries[batchIndex + 1] = @ + 1,
            !.sends[sid].open = @ + 1,
            !.sends[sid].emits = @ + 1,
            !.sends[sid].wire[batchIndex + 1] = Append(@, w.sends[sid].batch[batchIndex + 1])]

\* A _sendBatch that calls done itself when the batch is exhausted.
_sendBatchWithoutTick(w, sid, batchIndex, attempt, firstError) ==
  IF batchIndex >= Len(w.sends[sid].batch)
    THEN [w EXCEPT !.sends[sid].phase = "done",
                   !.sends[sid].doneCalls = @ + 1]
    ELSE IF hasFreshCredentials(w.signer)
      THEN Request(w, sid, batchIndex, attempt, firstError)
      ELSE [w EXCEPT !.sends[sid].phase = "refresh",
                     !.sends[sid].cur = Closure(batchIndex, attempt, firstError, 0)]

\* _sendBatch(batch, batchIndex, customDate, attempt, done, firstError) of
\* send sid.  sign() calls back synchronously when the credentials are
\* fresh, and after refreshCredentials otherwise.
_sendBatch(w, sid, batchIndex, attempt, firstError) ==
  IF batchIndex >= Len(w.sends[sid].batch)
    THEN [w EXCEPT !.sends[sid].phase = "tick",
                   !.sends[sid].cur = Closure(batchIndex, attempt, firstError, 0)]
    ELSE IF hasFreshCredentials(w.signer)
      THEN Request(w, sid, batchIndex, attempt, firstError)
      ELSE [w EXCEPT !.sends[sid].phase = "refresh",
                     !.sends[sid].cur = Closure(batchIndex, attempt, firstError, 0)]

\* A snapshot that forgets the children.
BodiesOfRoot(ch) == IF hasData(ch[1]) THEN <<ch[1]._body>> ELSE <<>>

\* A snapshot that keeps the bodies of the builders without data.
BodiesOfAll(ch) == [i \in 1..Len(ch) |-> ch[i]._body]

RECURSIVE Bodies(_)
Bodies(ch) ==
  IF ch = <<>> THEN <<>>
  ELSE (IF hasData(Head(ch)) THEN <<Head(ch)._body>> ELSE <<>>) \o Bodies(Tail(ch))

\* A send that snapshots without resetting.
sendWithoutReset(w, done) ==
  LET sid == Len(w.sends) + 1
      w1 == [w EXCEPT !.pending = <<>>,
                      !.sends = Append(w.sends, NewSend(Bodies(w.chain), w.pending, done))]
  IN _sendBatch(w1, sid, 0, 1, Null)

\* send(options, done): snapshot and reset every builder of the chain, then
\* _sendBatch(batch, 0, customDate, 1, done, null).
send(w, done) ==
  LET sid == Len(w.sends) + 1
      w1 == [w EXCEPT !.chain = [i \in 1..Len(w.chain) |-> _reset],
                      !.datum = <<>>,                            \* _reset of the root
                      !.pending = <<>>,
                      !.sends = Append(w.sends, NewSend(Bodies(w.chain), w.pending, done))]
  IN _sendBatch(w1, sid, 0, 1, Null)

\* flush(callback) of the publisher
flush(w, done) == send(w, done)

(* ------------------------------------------------------------------ *)
(* CloudWatchPublisher (index.js)                                      *)
(* ------------------------------------------------------------------ *)
\* _backgroundFlush()
_backgroundFlush(w) == flush([w EXCEPT !.bf = TRUE], "bg")

\* A once('_flush', ...) listener: this.stop.bind(this, callback) ("stop")
\* or callback itself ("callback"), of stop() call k.
Listener(kind, k) == [kind |-> kind, k |-> k]

\* A stop that never waits.
stopWithoutWait(w, k) ==
  _backgroundFlush([w EXCEPT !.listeners = Append(@, Listener("callback", k))])

\* stop(callback), for the stop() call k
stop(w, k) ==
  IF w.bf
    THEN [w EXCEPT !.listeners = Append(@, Listener("stop", k))]
    ELSE _backgroundFlush([w EXCEPT !.listeners = Append(@, Listener("callback", k))])

\* emit('_flush'): the listeners registered when emit is called run in
\* order, each removed before it runs; what they register stays registered.
RECURSIVE RunListeners(_, _)
RunListeners(w, ls) ==
  IF ls = <<>> THEN w
  ELSE RunListeners(
         IF Head(ls).kind = "stop"
           THEN stop(w, Head(ls).k)
           ELSE [w EXCEPT !.stops[Head(ls).k] = @ + 1],
         Tail(ls))

emitFlush(w) == RunListeners([w EXCEPT !.listeners = <<>>], w.listeners)

\* A callback that leaves the flag set when the flush failed.
_backgroundFlushCallbackOnSuccess(w, err) ==
  emitFlush([w EXCEPT !.bf = IF err # Null THEN @ ELSE FALSE,
                      !.emitted = IF err # Null THEN Append(@, err) ELSE @])

\* A callback that does not emit '_flush'.
_backgroundFlushCallbackWithoutEmit(w, err) ==
  [w EXCEPT !.bf = FALSE,
            !.emitted = IF err # Null THEN Append(@, err) ELSE @]

\* _backgroundFlushCallback(err).  An 'error' listener is attached (the
\* telemetry host forwards the event).
_backgroundFlushCallback(w, err) ==
  emitFlush([w EXCEPT !.bf = FALSE,
                      !.emitted = IF err # Null THEN Append(@, err) ELSE @])

\* A call of done(err) of send sid: the callback given to flush(), or
\* _backgroundFlushCallback.
done(w, sid, err) ==
  LET w1 == [w EXCEPT !.sends[sid].phase = "done",
                      !.sends[sid].doneCalls = @ + 1,
                      !.sends[sid].result = err]
  IN IF w.sends[sid].done = "bg" THEN _backgroundFlushCallback(w1, err) ELSE w1

(* ------------------------------------------------------------------ *)
(* RequestBuilder._sendBatch: the outcome of a request                 *)
(* ------------------------------------------------------------------ *)
\* A retry rule that also retries the other HTTP failures.
ShouldRetryAnyStatus(enableRetry, attempt, err, statusCode) ==
  /\ err # Null
  /\ enableRetry
  /\ attempt < MAX_ATTEMPTS
  /\ \/ err.code \in RECOVERABLE_NET_ERRORS
     \/ statusCode >= 300

\* A retry rule that allows one attempt more.
ShouldRetryOnceMore(enableRetry, attempt, err, statusCode) ==
  /\ err # Null
  /\ enableRetry
  /\ attempt <= MAX_ATTEMPTS
  /\ \/ err.code \in RECOVERABLE_NET_ERRORS
     \/ statusCode = TOO_MANY_REQUESTS
     \/ (statusCode >= 500 /\ statusCode < 600)

\* Whether finish retries: the failure is recoverable and attempts remain.
ShouldRetry(enableRetry, attempt, err, statusCode) ==
  /\ err # Null
  /\ enableRetry
  /\ attempt < MAX_ATTEMPTS
  /\ \/ err.code \in RECOVERABLE_NET_ERRORS
     \/ statusCode = TOO_MANY_REQUESTS
     \/ (statusCode >= 500 /\ statusCode < 600)

\* A finish that does not look at `called`: a second event of a request
\* is handled like the first.
finishEveryCall(w, sid, which, err, statusCode) ==
  LET s == w.sends[sid]
      c == IF which = "cur" THEN s.cur ELSE s.aborted
      b == c.batchIndex + 1
      retry == ShouldRetry(options.retry, c.attempt, err, statusCode)
      firstError == IF c.firstError # Null THEN c.firstError ELSE err
      w3 == [w EXCEPT !.sends[sid].fin[b] = TRUE, !.sends[sid].berr[b] = err]
  IN IF retry
       THEN [w EXCEPT !.sends[sid].phase = "timer"]
       ELSE IF c.batchIndex < Len(s.batch) - 1
         THEN _sendBatch(w3, sid, c.batchIndex + 1, 1, firstError)
         ELSE done(w3, sid, firstError)

\* finish(err, statusCode) of the request with closure c of send sid;
\* `which` names the closure: "cur" (the request in flight) or "aborted".
finish(w, sid, which, err, statusCode) ==
  LET s == w.sends[sid]
      c == IF which = "cur" THEN s.cur ELSE s.aborted
      b == c.batchIndex + 1
      w1 == IF which = "cur"
              THEN [w EXCEPT !.sends[sid].cur.called = @ + 1]
              ELSE [w EXCEPT !.sends[sid].aborted.called = @ + 1]
      retry == ShouldRetry(options.retry, c.attempt, err, statusCode)
      w2 == [w1 EXCEPT !.sends[sid].last =
                         [batchIndex |-> c.batchIndex, attempt |-> c.attempt,
                          err |-> err, statusCode |-> statusCode, retry |-> retry]]
      firstError == IF c.firstError # Null THEN c.firstError ELSE err
      w3 == [w2 EXCEPT !.sends[sid].fin[b] = TRUE, !.sends[sid].berr[b] = err]
  IN IF c.called # 0
       THEN w1
       ELSE IF retry
         \* setTimeout(this._sendBatch.bind(..., attempt + 1, done, firstError), retryDelay)
         THEN [w2 EXCEPT !.sends[sid].phase = "timer",
                         !.sends[sid].cur = [c EXCEPT !.called = @ + 1]]
         ELSE IF c.batchIndex < Len(s.batch) - 1
           THEN _sendBatch(w3, sid, c.batchIndex + 1, 1, firstError)
           ELSE done(w3, sid, firstError)

(* ------------------------------------------------------------------ *)
(* Actions                                                             *)
(* ------------------------------------------------------------------ *)
World ==
  [chain |-> chain, datum |-> _datum, pending |-> pending, sends |-> sends, signer |-> signer,
   bf |-> _backgroundFlushing, listeners |-> listeners, stops |-> stops,
   emitted |-> emitted]

Becomes(w) ==
  /\ chain' = w.chain
  /\ _datum' = w.datum
  /\ pending' = w.pending
  /\ sends' = w.sends
  /\ signer' = w.signer
  /\ _backgroundFlushing' = w.bf
  /\ listeners' = w.listeners
  /\ stops' = w.stops
  /\ emitted' = w.emitted

\* publisher.publish(metric); the call returns or throws (lastAdd.err).
\* `odd` tells the history whether the metric is outside the stream of
\* small metrics.
Publish(m, odd) ==
  LET id == calls + 1
      r == publish(_datum, chain, options.namespace, m, id)
  IN /\ calls' = id
     /\ _datum' = r.datum
     /\ chain' = r.chain
     /\ lastAdd' = [id |-> id, err |-> r.err, type |-> m.type, metric |-> m]
     /\ pending' = IF r.err = "none" /\ m.type \in {"single", "summary"}
                     THEN Append(pending, id) ELSE pending
     /\ odds' = IF odd THEN odds + 1 ELSE odds
     /\ UNCHANGED <<credentialsCache, signed, options, sends, signer, _backgroundFlushing, listeners, stops,
                    pings, emitted>>

\* publisher.flush(callback)
Flush ==
  /\ Becomes(flush(World, "user"))
  /\ UNCHANGED <<credentialsCache, signed, options, calls, lastAdd, odds, pings>>

\* A ping that does not look at _backgroundFlushing.
PingAlwaysFlushes ==
  /\ IF hasData(chain[1])
       THEN /\ Becomes(_backgroundFlush(World))
            /\ pings' = Append(pings, Len(sends) + 1)
       ELSE /\ Becomes(World)
            /\ pings' = Append(pings, 0)
  /\ UNCHANGED <<credentialsCache, signed, options, calls, lastAdd, odds>>

\* publisher.ping(callback); the callback is called before ping returns
\* (pings records the call and the flush it started).
Ping ==
  /\ IF hasData(chain[1]) /\ ~_backgroundFlushing
       THEN /\ Becomes(_backgroundFlush(World))
            /\ pings' = Append(pings, Len(sends) + 1)
       ELSE /\ Becomes(World)
            /\ pings' = Append(pings, 0)
  /\ UNCHANGED <<credentialsCache, signed, options, calls, lastAdd, odds>>

\* publisher.stop(callback)
Stop ==
  /\ Becomes(stop([World EXCEPT !.stops = Append(@, 0)], Len(stops) + 1))
  /\ UNCHANGED <<credentialsCache, signed, options, calls, lastAdd, odds, pings>>

\* Time passes: credentials with an expiration become stale.
Expire ==
  /\ signer = "fresh"
  /\ signer' = "stale"
  /\ UNCHANGED <<credentialsCache, signed, options, chain, _datum, calls, pending, lastAdd, odds, sends,
                 _backgroundFlushing, listeners, stops, pings, emitted>>

\* What a credential load can yield: an error of the source or a missing
\* field (the stored credentials stay), or credentials that are stored:
\* without expiration, fresh, or already stale.
LoadErrors ==
  {"load failed", "Missing accessKeyId", "Missing secretAccessKey", "Missing region"}
CredentialOutcomes == LoadErrors \cup {"noexp", "fresh", "stale"}

\* A refresh whose failure is ignored: the body is requested anyway.
RefreshDoneIgnoringErrors(sid, outcome) ==
  /\ sends[sid].phase = "refresh"
  /\ LET c == sends[sid].cur
     IN Becomes(Request([World EXCEPT !.signer = IF outcome \in LoadErrors THEN @ ELSE outcome],
                        sid, c.batchIndex, c.attempt, c.firstError))
  /\ UNCHANGED <<credentialsCache, signed, options, calls, lastAdd, odds, pings>>


\* refreshCredentials calls back, for the sign() call of send sid.
RefreshDone(sid, outcome) ==
  /\ sends[sid].phase = "refresh"
  /\ LET c == sends[sid].cur
     IN CASE outcome \in LoadErrors ->
               Becomes(done(World, sid, Err(outcome, "undefined")))
          [] outcome = "stale" ->
               Becomes(done([World EXCEPT !.signer = "stale"], sid,
                            Err("credentials did not successfully refresh", "undefined")))
          [] OTHER ->
               Becomes(Request([World EXCEPT !.signer = outcome], sid,
                               c.batchIndex, c.attempt, c.firstError))
  /\ UNCHANGED <<credentialsCache, signed, options, calls, lastAdd, odds, pings>>

\* The response of the request in flight arrives with this status.
Response(sid, statusCode) ==
  /\ sends[sid].phase = "request"
  /\ Becomes(finish([World EXCEPT !.sends[sid].open = @ - 1], sid, "cur",
                    IF statusCode >= 200 /\ statusCode < 300
                      THEN Null ELSE HttpError(statusCode),
                    statusCode))
  /\ UNCHANGED <<credentialsCache, signed, options, calls, lastAdd, odds, pings>>

\* The request in flight emits 'error'.
RequestError(sid, code) ==
  /\ sends[sid].phase = "request"
  /\ Becomes(finish([World EXCEPT !.sends[sid].open = @ - 1], sid, "cur",
                    NetError(code), NoStatus))
  /\ UNCHANGED <<credentialsCache, signed, options, calls, lastAdd, odds, pings>>

\* The request in flight emits 'timeout': finish(Socket timeout), then
\* request.abort().
Timeout(sid) ==
  /\ sends[sid].phase = "request"
  /\ LET c == sends[sid].cur
         b == c.batchIndex + 1
         w == finish([World EXCEPT !.sends[sid].open = @ - 1], sid, "cur",
                     SocketTimeout, NoStatus)
     IN Becomes([w EXCEPT !.sends[sid].aborted =
                            Closure(c.batchIndex, c.attempt,
                                    IF c.firstError # Null THEN c.firstError ELSE SocketTimeout,
                                    c.called + 1),
                          !.sends[sid].tmo[b] = sends[sid].tries[b]])
  /\ UNCHANGED <<credentialsCache, signed, options, calls, lastAdd, odds, pings>>

\* The aborted request emits 'error' (socket hang up).
AbortError(sid) ==
  /\ sends[sid].aborted # NoClosure
  /\ LET w == finish(World, sid, "aborted", NetError("ECONNRESET"), NoStatus)
     IN Becomes([w EXCEPT !.sends[sid].aborted = NoClosure])
  /\ UNCHANGED <<credentialsCache, signed, options, calls, lastAdd, odds, pings>>

\* The retry timer fires: _sendBatch(batch, batchIndex, customDate, attempt + 1, ...).
RetryTimer(sid) ==
  /\ sends[sid].phase = "timer"
  /\ LET c == sends[sid].cur
     IN Becomes(_sendBatch(World, sid, c.batchIndex, c.attempt + 1, c.firstError))
  /\ UNCHANGED <<credentialsCache, signed, options, calls, lastAdd, odds, pings>>

\* process.nextTick(done) runs.
NextTick(sid) ==
  /\ sends[sid].phase = "tick"
  /\ Becomes(done(World, sid, Null))
  /\ UNCHANGED <<credentialsCache, signed, options, calls, lastAdd, odds, pings>>

(* ------------------------------------------------------------------ *)
(* Inputs                                                              *)
(* ------------------------------------------------------------------ *)
TestNamespace == Str(<<"t", "e", "s", "t">>, 1)
TestCount == Str(<<"t", "e", "s", "t", ".", "c", "o", "u", "n", "t">>, 1)

\* The test suite's metric: { name: 'test.count', date: new Date(1),
\* unit: 'count', resolution: 60, value: v }
SmallSingle(v) == Metric("single", TestCount, "epoch", "60", v, Stats(0, 0, 0, 0), <<>>)
SmallSummary(v) == Metric("summary", TestCount, "epoch", "null", 0, Stats(v, 1, v, 2), <<>>)

InitWith(opts) ==
  /\ options \in opts
  /\ chain = <<_reset>>
  /\ _datum = <<>>
  /\ calls = 0
  /\ pending = <<>>
  /\ lastAdd = [id |-> 0, err |-> "none", type |-> "none",
                metric |-> Metric("none", EmptyStr, "null", "null", 0, Stats(0, 0, 0, 0), <<>>)]
  /\ odds = 0
  /\ sends = <<>>
  /\ signer = "undefined"
  /\ _backgroundFlushing = FALSE
  /\ listeners = <<>>
  /\ stops = <<>>
  /\ pings = <<>>
  /\ emitted = <<>>
  /\ credentialsCache = {}
  /\ signed = {}

Options(namespace, retry) == [namespace |-> namespace, retry |-> retry]

(* ------------------------------------------------------------------ *)
(* SpecCount: small metrics only, so that only the count ceiling splits *)
(* ------------------------------------------------------------------ *)
MaxCount == 42
MaxCountSends == 2

InitCount == InitWith({Options(TestNamespace, TRUE)})

\* The stream of small metrics: every third one a summary, the others single.
StreamMetric(v) == IF v % 3 = 0 THEN SmallSummary(v) ELSE SmallSingle(v)

PublishCount ==
  /\ calls < MaxCount
  /\ Publish(StreamMetric(calls + 1), FALSE)

FlushCount ==
  /\ Len(sends) < MaxCountSends
  /\ Flush

NextCount == PublishCount \/ FlushCount

SpecCount == InitCount /\ [][NextCount]_vars

(* ------------------------------------------------------------------ *)
(* More inputs                                                         *)
(* ------------------------------------------------------------------ *)
\* Lengths of a name that fills half a request, and of one that fits in none.
BigLen == 20300
HugeLen == 41000

BigSingle(v) == Metric("single", Str(<<"x">>, BigLen), "epoch", "1", v, Stats(0, 0, 0, 0), <<>>)
HugeSingle(v) == Metric("single", Str(<<"x">>, HugeLen), "epoch", "60", v, Stats(0, 0, 0, 0), <<>>)
NoDate(v) == Metric("single", TestCount, "null", "60", v, Stats(0, 0, 0, 0), <<>>)
BadResolution(v) == Metric("summary", TestCount, "epoch", "5", 0, Stats(v, v, v, 1), <<>>)
\* A namespace longer than a request may be.
HugeNamespace == Str(<<"x">>, HugeLen)

(* ------------------------------------------------------------------ *)
(* SpecBuilder: the builder under every kind of metric.  A run adds     *)
(* small metrics, then up to MaxOdd metrics of any kind, and flushes    *)
(* anywhere.                                                            *)
(* ------------------------------------------------------------------ *)
MaxOdd == 2
MaxStream == 21
MaxBuilderSends == 1

BuilderMetrics(v) ==
  {SmallSingle(v), BigSingle(v), HugeSingle(v), NoDate(v), BadResolution(v)}

InitBuilder ==
  InitWith({Options(ns, TRUE) : ns \in {TestNamespace, HugeNamespace}})

PublishStream ==
  /\ odds = 0
  /\ calls < MaxStream
  /\ Publish(StreamMetric(calls + 1), FALSE)
PublishOdd == \E m \in BuilderMetrics(calls + 1) : odds < MaxOdd /\ Publish(m, TRUE)
FlushBuilder == Len(sends) < MaxBuilderSends /\ Flush

NextBuilder == PublishStream \/ PublishOdd \/ FlushBuilder

SpecBuilder == InitBuilder /\ [][NextBuilder]_vars

(* ------------------------------------------------------------------ *)
(* The environment of a send: credential loads, responses, socket      *)
(* errors and timeouts, timers                                         *)
(* ------------------------------------------------------------------ *)
Sids == 1..Len(sends)

Signed == \E sid \in Sids, outcome \in CredentialOutcomes : RefreshDone(sid, outcome)
AbortFailed == \E sid \in Sids : AbortError(sid)
Retried == \E sid \in Sids : RetryTimer(sid)
Ticked == \E sid \in Sids : NextTick(sid)

\* The number of https.request calls made so far.
RECURSIVE SumTries(_, _)
SumTries(tries, b) == IF b = 0 THEN 0 ELSE tries[b] + SumTries(tries, b - 1)
RECURSIVE TotalTriesUpTo(_)
TotalTriesUpTo(sid) ==
  IF sid = 0 THEN 0
  ELSE SumTries(sends[sid].tries, Len(sends[sid].batch)) + TotalTriesUpTo(sid - 1)
TotalTries == TotalTriesUpTo(Len(sends))

(* ------------------------------------------------------------------ *)
(* Spec: the builder with its transport.  Metrics are published while  *)
(* sends are in flight; the server rejects a bounded number of         *)
(* requests.                                                           *)
(* ------------------------------------------------------------------ *)
MaxAdds == 3
MaxSends == 2
MaxFailedTries == 1

AnyMetrics(v) == {SmallSingle(v), BigSingle(v), BadResolution(v)}

Init == InitWith({Options(TestNamespace, TRUE)})

PublishAny == \E m \in AnyMetrics(calls + 1) : calls < MaxAdds /\ Publish(m, FALSE)
FlushAny == Len(sends) < MaxSends /\ Flush
Responded == \E sid \in Sids : Response(sid, 200)
Rejected == \E sid \in Sids : TotalTries <= MaxFailedTries /\ Response(sid, 500)

Next ==
  \/ PublishAny \/ FlushAny
  \/ Expire \/ Signed \/ Responded \/ Rejected \/ Retried \/ Ticked

Spec == Init /\ [][Next]_vars

(* ------------------------------------------------------------------ *)
(* SpecRetry: one flush of up to MaxRetryBodies bodies, with or        *)
(* without retry, under every outcome of a request.                    *)
(* ------------------------------------------------------------------ *)
MaxRetryBodies == 2
MaxRetrySends == 1

StatusCodes == {200, 404, 429, 500}
ErrorCodes == {"ECONNRESET", "EPROTO"}

InitRetry == InitWith({Options(TestNamespace, retry) : retry \in BOOLEAN})

\* Each of these metrics takes a body of its own.
PublishBig == calls < MaxRetryBodies /\ Publish(BigSingle(calls + 1), FALSE)
FlushRetry == Len(sends) < MaxRetrySends /\ Flush
Answered == \E sid \in Sids, statusCode \in StatusCodes : Response(sid, statusCode)
Broke == \E sid \in Sids, code \in ErrorCodes : RequestError(sid, code)
TimedOut == \E sid \in Sids : Timeout(sid)

NextRetry ==
  \/ PublishBig \/ FlushRetry
  \/ Expire \/ Signed \/ Answered \/ Broke \/ TimedOut
  \/ AbortFailed \/ Retried \/ Ticked

SpecRetry == InitRetry /\ [][NextRetry]_vars

(* ------------------------------------------------------------------ *)
(* SpecPlugin: the publisher as a telemetry plugin, with retry.  The   *)
(* host pings and stops it; the server accepts or rejects a request.   *)
(* ------------------------------------------------------------------ *)
MaxPluginAdds == 2
MaxPluginPings == 3
MaxPluginStops == 1

InitPlugin == InitWith({Options(TestNamespace, TRUE)})

PublishSmall == calls < MaxPluginAdds /\ Publish(SmallSingle(calls + 1), FALSE)
PingPlugin == Len(pings) < MaxPluginPings /\ Ping
StopPlugin == Len(stops) < MaxPluginStops /\ Stop
Refused == \E sid \in Sids : Response(sid, 500)

NextPlugin ==
  \/ PublishSmall \/ PingPlugin \/ StopPlugin
  \/ Signed \/ Responded \/ Refused \/ Retried \/ Ticked

SpecPlugin == InitPlugin /\ [][NextPlugin]_vars

(* ------------------------------------------------------------------ *)
(* Reading a body                                                      *)
(* ------------------------------------------------------------------ *)
\* The data points of a body: its segments after the preamble.
DataPoints(body) == IF body = <<>> THEN <<>> ELSE Tail(body)

\* The add calls whose key/value pairs a datum segment holds.
SegmentIds(seg) == {seg.kvs[k].of : k \in 1..Len(seg.kvs)}

\* The add call a data point starts with.
RECURSIVE FirstIds(_)
FirstIds(segs) ==
  IF segs = <<>> THEN <<>> ELSE <<Head(segs).kvs[1].of>> \o FirstIds(Tail(segs))

RECURSIVE BatchIds(_)
BatchIds(batch) ==
  IF batch = <<>> THEN <<>> ELSE FirstIds(DataPoints(Head(batch))) \o BatchIds(Tail(batch))

(* ------------------------------------------------------------------ *)
(* C1                                                                  *)
(* ------------------------------------------------------------------ *)
\* C1: when N > 20 small metrics were added to a drained builder, the next
\* send produces ceil(N/20) bodies: every body but the last holds 20 data
\* points and the last the rest, each body is at most 40 KiB, the member
\* index runs 1, 2, ... within each body, and the data points appear in
\* submission order across the bodies.
C1_Batches ==
  \A sid \in 1..Len(sends) :
    LET s == sends[sid]
        N == Len(s.ids)
        B == Len(s.batch)
    IN N > REQ_DATUM_LIMIT =>
         /\ B = (N + REQ_DATUM_LIMIT - 1) \div REQ_DATUM_LIMIT
         /\ \A b \in 1..B :
              LET dp == DataPoints(s.batch[b])
              IN /\ Len(dp) = IF b < B THEN REQ_DATUM_LIMIT ELSE N - REQ_DATUM_LIMIT * (B - 1)
                 /\ BodyBytes(s.batch[b]) <= REQ_BYTE_LIMIT
                 /\ \A k \in 1..Len(dp) : dp[k].n = k
         /\ BatchIds(s.batch) = s.ids

\* A send of 25 metrics gave two bodies, of 20 and of 5 data points.
C1_Witness ==
  \E sid \in 1..Len(sends) :
    /\ Len(sends[sid].ids) = 25
    /\ Len(sends[sid].batch) = 2
    /\ Len(DataPoints(sends[sid].batch[1])) = 20
    /\ Len(DataPoints(sends[sid].batch[2])) = 5

(* ------------------------------------------------------------------ *)
(* C2                                                                  *)
(* ------------------------------------------------------------------ *)
\* C2: in every reachable state every accumulator of the chain has a datum
\* count of at most 20, a running byte length of at most 40 KiB, and a
\* running byte length equal to the byte length of its body string.
C2_Limits ==
  \A i \in 1..Len(chain) :
    /\ chain[i]._datumCount <= REQ_DATUM_LIMIT
    /\ chain[i]._byteLength <= REQ_BYTE_LIMIT
    /\ chain[i]._byteLength = BodyBytes(chain[i]._body)

\* What the code does keep: the count ceiling, the agreement of the running
\* length with the body, and the byte ceiling of every accumulator that
\* holds a data point.
C2_LimitsOfData ==
  \A i \in 1..Len(chain) :
    /\ chain[i]._datumCount <= REQ_DATUM_LIMIT
    /\ chain[i]._datumCount = Len(DataPoints(chain[i]._body))
    /\ chain[i]._datumCount > 0 => chain[i]._byteLength <= REQ_BYTE_LIMIT
    /\ chain[i]._byteLength = BodyBytes(chain[i]._body)

(* ------------------------------------------------------------------ *)
(* C3                                                                  *)
(* ------------------------------------------------------------------ *)
\* Where the pairs of add call id are: in which data point of which body
\* of which send, and in which data point of which accumulator.
SentAt(id) ==
  {<<sid, b, k>> \in Sids \X (1..MaxAdds) \X (2..(MaxAdds + 1)) :
     /\ b <= Len(sends[sid].batch)
     /\ k <= Len(sends[sid].batch[b])
     /\ id \in SegmentIds(sends[sid].batch[b][k])}

HeldAt(id) ==
  {<<i, k>> \in (1..Len(chain)) \X (2..(MaxAdds + 1)) :
     /\ k <= Len(chain[i]._body)
     /\ id \in SegmentIds(chain[i]._body[k])}

\* The pairs of add call id in a data point are its whole datum: a
\* contiguous run from MetricName to the value or the statistic set.
Whole(seg, id) ==
  LET at == {k \in 1..Len(seg.kvs) : seg.kvs[k].of = id}
      lo == CHOOSE k \in at : \A j \in at : k <= j
      hi == CHOOSE k \in at : \A j \in at : k >= j
  IN /\ at = lo..hi
     /\ seg.kvs[lo].key = "MetricName"
     /\ seg.kvs[hi].key \in {"Value", "StatisticValues.SampleCount"}

\* C3: every datum whose add call returned is, whole, in exactly one data
\* point: of one body of the send that drained it once that send was
\* called, and of one accumulator until then.
C3_ExactlyOnce ==
  /\ \A sid \in Sids : \A j \in 1..Len(sends[sid].ids) :
       LET id == sends[sid].ids[j]
       IN /\ Cardinality(SentAt(id)) = 1
          /\ \A at \in SentAt(id) :
               at[1] = sid /\ Whole(sends[sid].batch[at[2]][at[3]], id)
          /\ HeldAt(id) = {}
  /\ \A j \in 1..Len(pending) :
       LET id == pending[j]
       IN /\ SentAt(id) = {}
          /\ Cardinality(HeldAt(id)) = 1
          /\ \A at \in HeldAt(id) : Whole(chain[at[1]]._body[at[2]], id)

\* A send that was split into two bodies and whose first request was
\* retried has completed, and a later send took a datum added after it.
C3_Witness ==
  /\ Len(sends) = 2
  /\ Len(sends[1].batch) = 2
  /\ sends[1].tries[1] = 2
  /\ sends[1].phase = "done"
  /\ sends[2].ids # <<>>

(* ------------------------------------------------------------------ *)
(* C4                                                                  *)
(* ------------------------------------------------------------------ *)
\* C4: the step that calls send() leaves every accumulator reset, and the
\* new send holds the bodies and the data accepted up to the call; the
\* bodies of a send never change afterwards, so that a metric added while
\* it is in flight is in none of them and is taken by the next send.
C4_Snapshot ==
  [][/\ \A sid \in Sids :
          /\ sends'[sid].batch = sends[sid].batch
          /\ sends'[sid].ids = sends[sid].ids
     /\ \A sid \in (Len(sends) + 1)..Len(sends') :
          /\ \A i \in 1..Len(chain') : chain'[i] = _reset
          /\ sends'[sid].batch = Bodies(chain)
          /\ sends'[sid].ids = pending
          /\ \A j \in 1..Len(pending) :
               \E b \in 1..Len(Bodies(chain)) : \E k \in 2..Len(Bodies(chain)[b]) :
                 pending[j] \in SegmentIds(Bodies(chain)[b][k])]_vars

\* While the first send is still in flight, after a retry, a second send
\* has taken a datum that was added in the meantime.
C4_Witness ==
  /\ Len(sends) = 2
  /\ sends[1].ids # <<>>
  /\ sends[1].phase = "request"
  /\ sends[1].tries[1] = 2
  /\ sends[2].ids # <<>>
  /\ sends[2].phase = "done"

(* ------------------------------------------------------------------ *)
(* C5                                                                  *)
(* ------------------------------------------------------------------ *)
\* The retry rule in the words of the specification, for the attempt l
\* that has just finished.
RetryRule(l) ==
  /\ options.retry
  /\ l.attempt < MAX_ATTEMPTS
  /\ \/ l.err.code \in {"EAI_AGAIN", "ENOTFOUND", "ETIMEDOUT", "ESOCKETTIMEDOUT",
                        "ECONNREFUSED", "ECONNRESET", "EHOSTUNREACH", "EPIPE"}
     \/ l.statusCode = 429
     \/ l.statusCode \in 500..599

\* What a step does with an attempt that finishes in it, and with a retry
\* timer that fires in it.
C5_Step ==
  \A sid \in Sids :
    LET s == sends[sid]
        t == sends'[sid]
        l == t.last
        b == l.batchIndex + 1
    IN /\ t.last # s.last =>
            /\ l.statusCode # NoStatus => (l.err = Null <=> l.statusCode \in 200..299)
            /\ l.err = Null => t.fin[b] /\ t.berr[b] = Null
            /\ l.err # Null =>
                 IF RetryRule(l)
                   THEN /\ t.phase = "timer"
                        /\ t.cur.batchIndex = l.batchIndex
                        /\ t.cur.attempt = l.attempt
                        /\ ~t.fin[b]
                   ELSE /\ t.phase # "timer"
                        /\ t.fin[b]
                        /\ t.berr[b] = l.err
                        /\ t.tries[b] = l.attempt
       /\ s.phase = "timer" /\ t.phase # "timer" =>
            /\ t.cur.batchIndex = s.cur.batchIndex
            /\ t.cur.attempt = s.cur.attempt + 1
            /\ t.phase \in {"request", "refresh"}
            /\ t.phase = "request" =>
                 t.tries[s.cur.batchIndex + 1] = s.tries[s.cur.batchIndex + 1] + 1

\* The two scenarios.
C5_Scenarios ==
  \A sid \in Sids :
    LET s == sends[sid]
    IN /\ ~options.retry => \A b \in 1..Len(s.batch) : s.tries[b] <= 1
       /\ ~options.retry /\ Len(s.batch) = 1 /\ s.last.statusCode = 500 =>
            /\ s.phase = "done"
            /\ s.result.message = "HTTP 500"
            /\ s.tries[1] = 1
       /\ options.retry /\ Len(s.batch) = 1 /\ s.last.attempt = 3 /\ s.last.statusCode = 200 =>
            /\ s.phase = "done"
            /\ s.result = Null
            /\ s.tries[1] = 3

C6_Terminal ==
  \A sid \in Sids :
    LET s == sends[sid]
    IN /\ s.doneCalls <= 1
       /\ \A b \in 1..Len(s.batch) :
            s.tmo[b] # 0 =>
              /\ s.tries[b] = s.tmo[b]
              /\ s.fin[b]
              /\ s.berr[b].message = "Socket timeout"

\* The 'error' event of an aborted request changes nothing of the send.
C6_AbortStep ==
  \A sid \in Sids :
    sends[sid].aborted # NoClosure /\ sends'[sid].aborted = NoClosure =>
      /\ sends'[sid] = [sends[sid] EXCEPT !.aborted = NoClosure]
      /\ UNCHANGED <<chain, emitted, listeners, _backgroundFlushing>>

\* C6: an attempt that times out is aborted and fails its body with
\* 'Socket timeout' without another attempt of the body, with retry
\* enabled and attempts left as well; the error event of the abort causes
\* neither a retry nor a second completion.
C6_Timeout == []C6_Terminal /\ [][C6_AbortStep]_vars

\* With retry, the first attempt of a flush timed out, the aborted request
\* emitted its error, and the flush has failed with the timeout.
C6_Witness ==
  /\ options.retry
  /\ Len(sends) = 1
  /\ Len(sends[1].batch) = 1
  /\ sends[1].tmo[1] = 1
  /\ sends[1].aborted = NoClosure
  /\ sends[1].phase = "done"
  /\ sends[1].doneCalls = 1
  /\ sends[1].result.message = "Socket timeout"

(* ------------------------------------------------------------------ *)
(* C7                                                                  *)
(* ------------------------------------------------------------------ *)
\* The first body of send s that failed (0: none).
FirstFailed(s) ==
  IF \E b \in 1..Len(s.batch) : s.fin[b] /\ s.berr[b] # Null
    THEN CHOOSE b \in 1..Len(s.batch) :
           /\ s.fin[b] /\ s.berr[b] # Null
           /\ \A c \in 1..(b - 1) : ~(s.fin[c] /\ s.berr[c] # Null)
    ELSE 0

\* Body b of send s used all its attempts and failed.
Exhausted(s, b) == s.tries[b] = MAX_ATTEMPTS /\ s.fin[b] /\ s.berr[b] # Null

SigningErrors ==
  {"load failed", "Missing accessKeyId", "Missing secretAccessKey", "Missing region",
   "credentials did not successfully refresh"}

\* No body gets more attempts than the maximum, and the attempt counter
\* restarts at 1 with each body.
C7_Budget ==
  \A sid \in Sids : \A b \in 1..Len(sends[sid].batch) :
    sends[sid].tries[b] <= MAX_ATTEMPTS

C7_RestartStep ==
  \A sid \in Sids :
    /\ sends'[sid].cur.batchIndex # sends[sid].cur.batchIndex =>
         /\ sends'[sid].cur.batchIndex = sends[sid].cur.batchIndex + 1
         /\ sends'[sid].cur.attempt = 1
    /\ sends'[sid].last # sends[sid].last /\ sends'[sid].fin[sends'[sid].last.batchIndex + 1] =>
         sends'[sid].berr[sends'[sid].last.batchIndex + 1] = sends'[sid].last.err

\* C7 as stated: ..., and the flush yields the last error of a body that
\* used all its attempts.
C7_LastError ==
  /\ C7_Budget
  /\ \A sid \in Sids : \A b \in 1..Len(sends[sid].batch) :
       sends[sid].phase = "done" /\ Exhausted(sends[sid], b) =>
         sends[sid].result = sends[sid].berr[b]

\* What the flush yields when a body used all its attempts: the error of a
\* signing failure if one ended the flush, and otherwise the error of the
\* first body that failed.
C7_Yields ==
  \A sid \in Sids : \A b \in 1..Len(sends[sid].batch) :
    LET s == sends[sid]
    IN s.phase = "done" /\ Exhausted(s, b) =>
         IF \A c \in 1..Len(s.batch) : s.fin[c]
           THEN s.result = s.berr[FirstFailed(s)]
           ELSE s.result.message \in SigningErrors

\* C7 (amended): no body gets more than the maximum of attempts, the
\* counter restarts at 1 with each following body, the error of a body
\* that used all its attempts is the error of its last attempt, and the
\* flush yields the error of the first body that failed, unless a signing
\* failure ended it.
C7_FirstError == [](C7_Budget /\ C7_Yields) /\ [][C7_RestartStep]_vars

\* Both bodies of a flush used all their attempts, the second after the
\* first, and the flush yielded the error of the first, which differs
\* from the last error of the second.
C7_Witness ==
  /\ Len(sends) = 1
  /\ Len(sends[1].batch) = 2
  /\ Exhausted(sends[1], 1)
  /\ Exhausted(sends[1], 2)
  /\ sends[1].phase = "done"
  /\ sends[1].result = sends[1].berr[1]
  /\ sends[1].berr[2] # sends[1].berr[1]
  /\ sends[1].last.err = sends[1].berr[2]

(* ------------------------------------------------------------------ *)
(* C8                                                                  *)
(* ------------------------------------------------------------------ *)
\* C8: when the fifth attempt of a request of a background flush has
\* failed, no further attempt of it is made, and the flush reports the
\* error as an 'error' event.
C8_FiveFailures ==
  \A sid \in Sids :
    LET s == sends[sid]
    IN s.done = "bg" /\ s.last.attempt >= 5 /\ s.last.err # Null =>
         /\ s.last.attempt = 5
         /\ s.phase = "done"
         /\ s.tries[s.last.batchIndex + 1] = 5
         /\ \E k \in 1..Len(emitted) : emitted[k] = s.last.err

(* ------------------------------------------------------------------ *)
(* C9                                                                  *)
(* ------------------------------------------------------------------ *)
\* C9: when a flush has completed and a body of it failed, the bodies
\* after it were attempted, and the callback got the error of the first
\* body that failed.
C9_FirstFailure ==
  \A sid \in Sids :
    LET s == sends[sid]
        b == FirstFailed(s)
    IN s.phase = "done" /\ b # 0 =>
         /\ \A c \in (b + 1)..Len(s.batch) : s.tries[c] >= 1
         /\ s.result = s.berr[b]

\* The first body of a flush failed, the credentials expired, the signing
\* of the second body failed: the callback got the signing error.
C9_SigningError ==
  /\ Len(sends) = 1
  /\ Len(sends[1].batch) = 2
  /\ sends[1].phase = "done"
  /\ FirstFailed(sends[1]) = 1
  /\ sends[1].tries[2] = 0
  /\ sends[1].result.message \in SigningErrors

(* ------------------------------------------------------------------ *)
(* C10                                                                 *)
(* ------------------------------------------------------------------ *)
\* C10: hasData() is true iff at least one accumulator of the chain holds
\* at least one datum, in every reachable state.
C10_HasData ==
  hasData(chain[1]) <=> \E i \in 1..Len(chain) : chain[i]._datumCount > 0

\* hasData() is true while no accumulator holds a datum, after an add threw
\* 'Datum is too big' under the test namespace.
C10_PreambleOnly ==
  /\ options.namespace = TestNamespace
  /\ lastAdd.err = "Datum is too big"
  /\ hasData(chain[1])
  /\ \A i \in 1..Len(chain) : chain[i]._datumCount = 0

(* ------------------------------------------------------------------ *)
(* C11                                                                 *)
(* ------------------------------------------------------------------ *)
\* The metric m alone does not fit in an empty accumulator: added to a
\* builder fresh from construction, its datum is too big.
Oversized(m) ==
  publish(<<>>, <<_reset>>, options.namespace, m, 0).err = "Datum is too big"

\* The data points of the accumulators and of the bodies sent.
AllDataPoints ==
  UNION {{chain[i]._body[k] : k \in 2..Len(chain[i]._body)} : i \in 1..Len(chain)}
  \cup UNION {UNION {{sends[sid].batch[b][k] : k \in 2..Len(sends[sid].batch[b])} :
                       b \in 1..Len(sends[sid].batch)} : sid \in Sids}

\* C11: the add call of a metric whose datum alone does not fit in an
\* empty accumulator throws 'Datum is too big', whatever the chain holds,
\* and no pair of it is in any body; no data point of any body is too big
\* for an empty accumulator.
C11_TooBig ==
  /\ lastAdd.id # 0 /\ Oversized(lastAdd.metric) =>
       /\ lastAdd.err = "Datum is too big"
       /\ \A seg \in AllDataPoints : lastAdd.id \notin SegmentIds(seg)
  /\ \A seg \in AllDataPoints :
       BodyBytes(<<Preamble(options.namespace)>>)
         + DatumBytes(1, Len(seg.kvs), SumKVLen(seg.kvs)) <= REQ_BYTE_LIMIT

\* After a flush of 21 metrics left the root and its child empty, a metric
\* with a name of HugeLen characters was rejected; it went through the
\* root and the child to a third accumulator.
C11_Witness ==
  /\ options.namespace = TestNamespace
  /\ Len(sends) = 1
  /\ Len(sends[1].batch) = 2
  /\ Len(sends[1].ids) = 21
  /\ lastAdd.metric.name.rep = HugeLen
  /\ lastAdd.err = "Datum is too big"
  /\ Len(chain) = 3

(* ------------------------------------------------------------------ *)
(* C12                                                                 *)
(* ------------------------------------------------------------------ *)
\* The background flushes in flight in the list ss of sends.
BgInFlight(ss) == {sid \in 1..Len(ss) : ss[sid].done = "bg" /\ ss[sid].phase # "done"}

\* The kinds of the '_flush' listeners that stop() call k has in ls.
KindsOf(ls, k) == {ls[j].kind : j \in {i \in 1..Len(ls) : ls[i].k = k}}

\* The step completes the background flush in flight.
CompletesFlush ==
  \E sid \in BgInFlight(sends) : sends'[sid].phase = "done"

\* The step starts one background flush.
StartsFlush ==
  /\ Len(sends') = Len(sends) + 1
  /\ sends'[Len(sends')].done = "bg"
  /\ sends'[Len(sends')].phase # "done"

\* At most one background flush is in flight, and _backgroundFlushing
\* tells whether one is; a stop() call has one listener until its callback
\* has run, which it does once.
C12_State ==
  /\ Cardinality(BgInFlight(sends)) <= 1
  /\ _backgroundFlushing <=> BgInFlight(sends) # {}
  /\ \A k \in 1..Len(stops) :
       /\ stops[k] <= 1
       /\ Cardinality({j \in 1..Len(listeners) : listeners[j].k = k}) = 1 - stops[k]
       /\ KindsOf(listeners, k) # {} => _backgroundFlushing

C12_Step ==
  \A k \in 1..Len(stops') :
    \* stop(callback) is called
    /\ k > Len(stops) =>
         /\ stops'[k] = 0
         /\ IF _backgroundFlushing
              THEN /\ KindsOf(listeners', k) = {"stop"}
                   /\ Len(sends') = Len(sends)
              ELSE /\ KindsOf(listeners', k) = {"callback"}
                   /\ StartsFlush
    \* the flush it waited for completes
    /\ k <= Len(stops) /\ KindsOf(listeners, k) = {"stop"} /\ KindsOf(listeners', k) # {"stop"} =>
         /\ CompletesFlush
         /\ StartsFlush
         /\ KindsOf(listeners', k) = {"callback"}
         /\ stops'[k] = 0
    \* its callback is invoked
    /\ k <= Len(stops) /\ stops'[k] # stops[k] =>
         /\ KindsOf(listeners, k) = {"callback"}
         /\ CompletesFlush
         /\ KindsOf(listeners', k) = {}

\* C12: stop(callback) called during a background flush waits for it,
\* then starts a second flush, and calls back when that one completes;
\* called when none is in flight it starts a flush at once and calls back
\* when it completes.
C12_Stop == []C12_State /\ [][C12_Step]_vars

\* publish, ping, stop: the stop waits for the flush that ping started.
C12_Witness ==
  /\ pings = <<1>>
  /\ sends[1].phase # "done"
  /\ stops = <<0>>
  /\ listeners = <<Listener("stop", 1)>>

\* ... and later its callback has run, after the two flushes.
C12_Stopped ==
  /\ pings = <<1>>
  /\ stops = <<1>>
  /\ Len(sends) = 2
  /\ sends[1].phase = "done" /\ sends[2].phase = "done"
  /\ listeners = <<>>

(* ------------------------------------------------------------------ *)
(* C13                                                                 *)
(* ------------------------------------------------------------------ *)
\* C13: at the moment the callback of a stop() call is invoked, the
\* builder holds no pending data: what was published during stop's final
\* flush has been flushed as well.
C13_Drained ==
  [][\A k \in 1..Len(stops) :
       stops'[k] # stops[k] => ~hasData(chain'[1]) /\ pending' = <<>>]_vars

SignBegins(sid) ==
  /\ sends'[sid].phase \in {"request", "refresh"}
  /\ \/ sid > Len(sends)
     \/ sends'[sid].cur.batchIndex # sends[sid].cur.batchIndex
     \/ sends'[sid].cur.attempt # sends[sid].cur.attempt

\* The stored credentials are fresh, in the words of the specification:
\* they have no expiration, or now < expiration - 30 s.
StoredFresh(sg) == sg = "noexp" \/ sg = "fresh"

C15_Step ==
  \A sid \in 1..Len(sends') :
    \* a sign call loads credentials iff the stored ones are not fresh
    /\ SignBegins(sid) =>
         (sends'[sid].phase = "refresh" <=> ~StoredFresh(signer'))
    \* a load is started by a sign call only
    /\ sends'[sid].phase = "refresh" =>
         \/ SignBegins(sid)
         \/ sid <= Len(sends) /\ sends[sid].phase = "refresh" /\ sends'[sid].cur = sends[sid].cur
    \* when the load ends, the sign call requests or fails: no second load
    /\ sid <= Len(sends) /\ sends[sid].phase = "refresh" /\ sends'[sid].phase # "refresh" =>
         /\ sends'[sid].phase \in {"request", "done"}
         /\ sends'[sid].cur = sends[sid].cur
         /\ sends'[sid].phase = "request" => StoredFresh(signer')
    \* the stored credentials change when a load ends or time passes only
    /\ signer' # signer =>
         \/ signer = "fresh" /\ signer' = "stale"
         \/ \E t \in Sids : sends[t].phase = "refresh" /\ sends'[t].phase # "refresh"

\* C15: a sign call invokes the credential source zero times when the
\* stored credentials are fresh and once when they are stale or absent;
\* credentials without expiration are reused by every later sign call,
\* those of retries included.
C15_Loads == [][C15_Step]_vars

\* Credentials without expiration were loaded for the first attempt; the
\* third attempt of the body is in flight.
C15_Witness ==
  /\ signer = "noexp"
  /\ Len(sends) = 1
  /\ sends[1].tries[1] = 3
  /\ sends[1].phase = "request"

(* ------------------------------------------------------------------ *)
(* C16                                                                 *)
(* ------------------------------------------------------------------ *)
C16_Step ==
  \A sid \in Sids :
    LET s == sends[sid]
        t == sends'[sid]
    IN \* a load ends: with fresh credentials and the request, or with the
       \* callback called with the signing error and no request
       /\ s.phase = "refresh" /\ t.phase # "refresh" =>
            \/ /\ t.phase = "request"
               /\ StoredFresh(signer')
            \/ /\ t.phase = "done"
               /\ t.result.message \in SigningErrors
               /\ t.result.message = "credentials did not successfully refresh" => signer' = "stale"
               /\ t.doneCalls = s.doneCalls + 1
               /\ t.tries = s.tries
               /\ t.fin = s.fin
       \* a completed send makes no request and is not completed again
       /\ s.phase = "done" =>
            /\ t.phase = "done"
            /\ t.tries = s.tries
            /\ t.doneCalls = s.doneCalls
            /\ t.result = s.result

\* C16: when a credential refresh fails, the callback of the send gets
\* that error, no request is made for the body nor for the bodies after
\* it, and nothing is retried, with retry enabled as well.
C16_Abort == [][C16_Step]_vars

\* With retry enabled the first request of a flush of two bodies was
\* rejected; the credentials expired; the refresh for the retry yielded
\* stale credentials: the flush ended with that error.
C16_Witness ==
  /\ options.retry
  /\ Len(sends) = 1
  /\ Len(sends[1].batch) = 2
  /\ sends[1].tries = <<1, 0>>
  /\ sends[1].last.retry
  /\ sends[1].phase = "done"
  /\ sends[1].result.message = "credentials did not successfully refresh"


(* ------------------------------------------------------------------ *)
(* Request signing (req-signer.js)                                      *)
(* ------------------------------------------------------------------ *)

\* crypto's HMAC-SHA256 and SHA256, as collision-free terms over their
\* arguments.
hmac(key, string) == <<"hmac", key, string>>

hash(string) == <<"sha256", string>>

\* What a cache lookup yields when the key is absent.
Undefined == <<>>

\* hashlru's get and set on the shared cache, a set of entries with at
\* most one entry per key.
cacheGet(cache, key) ==
  IF \E e \in cache : e.key = key
    THEN (CHOOSE e \in cache : e.key = key).value
    ELSE Undefined

cacheSet(cache, key, value) ==
  {e \in cache : e.key # key} \cup {[key |-> key, value |-> value]}

\* A signer with loaded credentials: this._credentials and this._region.
\* sessionToken is EmptyStr.txt when the credentials have none.
Signer(accessKeyId, secretAccessKey, sessionToken, region) ==
  [accessKeyId |-> accessKeyId, secretAccessKey |-> secretAccessKey,
   sessionToken |-> sessionToken, region |-> region]

\* A time of signing: toISOString() without punctuation is date \o time,
\* and its first 8 characters are date.
DateTime(date, time) == [date |-> date, time |-> time]

credentialString(sg, date) ==
  date \o "/" \o sg.region \o "/monitoring/aws4_request"

\* The newline-separated parts, in order.
canonicalString(method, path, signedHeaders, canonicalHeaders, bodyHash) ==
  <<method, path, "", canonicalHeaders, signedHeaders, bodyHash>>

stringToSign(sg, method, path, datetime, date, signedHeaders, canonicalHeaders, bodyHash) ==
  <<"AWS4-HMAC-SHA256", datetime, credentialString(sg, date),
    hash(canonicalString(method, path, signedHeaders, canonicalHeaders, bodyHash))>>

cacheKey(sg, date) ==
  sg.secretAccessKey \o "|" \o date \o "|" \o sg.region \o "|" \o "monitoring"

\* The signing key derived from the secret, the date, the region and the
\* service.
kCredentials(sg, date) ==
  LET kDate == hmac("AWS4" \o sg.secretAccessKey, date)
      kRegion == hmac(kDate, sg.region)
      kService == hmac(kRegion, "monitoring")
  IN hmac(kService, "aws4_request")

\* signature(): the signature and the cache it leaves.
signature(cache, sg, method, path, datetime, date, signedHeaders, canonicalHeaders, bodyHash) ==
  LET found == cacheGet(cache, cacheKey(sg, date))
      key == IF found = Undefined THEN kCredentials(sg, date) ELSE found
  IN [cache |-> IF found = Undefined
                  THEN cacheSet(cache, cacheKey(sg, date), key)
                  ELSE cache,
      hex |-> hmac(key, stringToSign(sg, method, path, datetime, date,
                                     signedHeaders, canonicalHeaders, bodyHash))]

\* authHeader(): the parts of the authorization header, and the cache.
authHeader(cache, sg, method, path, datetime, date, signedHeaders, canonicalHeaders, bodyHash) ==
  LET sig == signature(cache, sg, method, path, datetime, date,
                       signedHeaders, canonicalHeaders, bodyHash)
  IN [cache |-> sig.cache,
      header |-> <<"AWS4-HMAC-SHA256 Credential=" \o sg.accessKeyId \o "/"
                     \o credentialString(sg, date),
                   signedHeaders, sig.hex>>]

\* sign() of a signer with fresh credentials: the authorization header of
\* the request, and the cache.  The header values signed here hold no
\* white space, so trimHeaderValue leaves them as they are.
sign(cache, sg, body, customDate) ==
  LET bodyHash == hash(body)
      hostname == "monitoring." \o sg.region \o ".amazonaws.com"
      datetime == customDate.date \o customDate.time
      date == customDate.date
      base == <<"host", "x-amz-content-sha256", "x-amz-date">>
      signedHeaders == IF sg.sessionToken # ""
                         THEN Append(base, "x-amz-security-token")
                         ELSE base
      value(k) == CASE k = "host" -> hostname
                    [] k = "x-amz-content-sha256" -> bodyHash
                    [] k = "x-amz-date" -> datetime
                    [] OTHER -> sg.sessionToken
      canonicalHeaders == [i \in DOMAIN signedHeaders |->
                             <<signedHeaders[i], value(signedHeaders[i])>>]
      ah == authHeader(cache, sg, "POST", "/", datetime, date,
                       signedHeaders, canonicalHeaders, bodyHash)
  IN [cache |-> ah.cache, authorization |-> ah.header]


\* The variables of the publisher, which signing on its own leaves alone.
publisherVars ==
  <<options, chain, _datum, calls, pending, lastAdd, odds, sends, signer,
    _backgroundFlushing, listeners, stops, pings, emitted>>

\* signer.sign(body, customDate, done) by a signer holding fresh
\* credentials `sg`.
Sign(sg, body, customDate) ==
  LET r == sign(credentialsCache, sg, body, customDate)
  IN /\ credentialsCache' = r.cache
     /\ signed' = signed \cup {[signer |-> sg, body |-> body,
                                customDate |-> customDate,
                                authorization |-> r.authorization]}
     /\ UNCHANGED publisherVars

\* The cache drops an entry to make room.
Evict(key) ==
  /\ \E e \in credentialsCache : e.key = key
  /\ credentialsCache' = {e \in credentialsCache : e.key # key}
  /\ UNCHANGED signed
  /\ UNCHANGED publisherVars

(* ------------------------------------------------------------------ *)
(* SpecSigner: signers of one process sharing the signing-key cache     *)
(* ------------------------------------------------------------------ *)

TestSecret == "secret"

TestRegion == "us-east-1"

FirstDate == "20200101"

SecondDate == "20200102"

\* Two configurations whose secret and region hold a '|', and one of the
\* usual form with a session token.
BarRegionSigner == Signer("AKID", TestSecret, "", SecondDate \o "|" \o TestRegion)

BarSecretSigner == Signer("AKID", TestSecret \o "|" \o FirstDate, "", TestRegion)

PlainSigner == Signer("AKID", TestSecret, "token", TestRegion)

Signers == {BarRegionSigner, BarSecretSigner, PlainSigner}

SignDates == {DateTime(FirstDate, "T000000Z"), DateTime(SecondDate, "T000000Z")}

SignBodies == {"Action=PutMetricData"}

InitSigner == InitWith({Options(TestNamespace, TRUE)})

SignAny == \E sg \in Signers, b \in SignBodies, d \in SignDates : Sign(sg, b, d)

EvictAny == \E e \in credentialsCache : Evict(e.key)

NextSigner == SignAny \/ EvictAny

SpecSigner == InitSigner /\ [][NextSigner]_vars

(* ------------------------------------------------------------------ *)
(* C17                                                                  *)
(* ------------------------------------------------------------------ *)

\* The authorization header of a signing that finds the cache empty.
FreshAuthorization(sg, body, customDate) == sign({}, sg, body, customDate).authorization

\* C17: signing the same body with the same credentials, region and
\* timestamp always yields the same authorization header, the one a
\* fresh derivation of the signing key gives, whatever other signers
\* have put into or evicted from the shared cache.
C17_Deterministic ==
  \A s \in signed :
    s.authorization = FreshAuthorization(s.signer, s.body, s.customDate)

\* Two different signers whose cache keys coincide have both signed.
C17_SharedKey ==
  \E s, t \in signed :
    /\ s.signer # t.signer
    /\ cacheKey(s.signer, s.customDate.date) = cacheKey(t.signer, t.customDate.date)

\* Supplement to C17: a signer whose secret and region hold no '|' always
\* gets the header of a fresh derivation.
C17_PlainDeterministic ==
  \A s \in signed :
    s.signer = PlainSigner =>
      s.authorization = FreshAuthorization(s.signer, s.body, s.customDate)


(* ------------------------------------------------------------------ *)
(* C18                                                                  *)
(* ------------------------------------------------------------------ *)

\* No builder of the chain has data.
NoData(ch) == \A i \in 1..Len(ch) : ~hasData(ch[i])

\* A send of an empty batch is waiting for its tick or has called back,
\* once and without error; it never waits for credentials or a response.
C18_State ==
  \A sid \in Sids :
    sends[sid].batch = <<>> =>
      /\ sends[sid].phase \in {"tick", "done"}
      /\ sends[sid].phase = "tick" => sends[sid].doneCalls = 0
      /\ sends[sid].phase = "done" =>
           sends[sid].doneCalls = 1 /\ sends[sid].result = Null

\* A send started while no builder has data has an empty batch and makes
\* no request; the tick of such a send calls
\* back without error.
C18_Step ==
  /\ (Len(sends') > Len(sends) /\ NoData(chain)) =>
       /\ \A sid \in (Len(sends) + 1)..Len(sends') :
            sends'[sid].batch = <<>> /\ sends'[sid].phase = "tick"
       /\ TotalTries' = TotalTries
  /\ \A sid \in Sids :
       (sends[sid].batch = <<>> /\ sends'[sid] # sends[sid]) =>
         /\ sends[sid].phase = "tick"
         /\ sends'[sid].phase = "done"
         /\ sends'[sid].result = Null
         /\ TotalTries' = TotalTries \/ Len(sends') > Len(sends)

ValidationErrors ==
  {"Date is required",
   "resolution must be one of 1 (high) or 60 seconds (normal)",
   "dimension name cannot be empty",
   "dimension value must be a string"}

\* The add calls with a pair in some data point of an accumulator.
HeldIds(ch) ==
  UNION {SegmentIds(ch[i]._body[k]) : <<i, k>> \in
           {<<i, k>> \in (1..Len(ch)) \X (2..(MaxStream + MaxOdd + 1)) :
              k <= Len(ch[i]._body)}}

\* The add call before this step failed validation, and the accumulators
\* hold nothing of it after the step.
C19_Step ==
  lastAdd.err \in ValidationErrors => lastAdd.id \notin HeldIds(chain')

\* C19: an add call that fails with a validation error puts nothing of
\* its datum into a body, then or later.
C19_NoBody == [][C19_Step]_vars

\* An add call has thrown for its resolution and has left pairs in the
\* _datum array.
C19_LeftInDatum ==
  /\ lastAdd.err = "resolution must be one of 1 (high) or 60 seconds (normal)"
  /\ _datum # <<>>
  /\ \A k \in 1..Len(_datum) : _datum[k].of = lastAdd.id

\* Supplement to C19: an add call without a date, or with a resolution
\* other than 1, 60 or none, throws the validation error of that field.
C19_Throws ==
  lastAdd.type \in {"single", "summary"} =>
    /\ lastAdd.metric.date = "null" => lastAdd.err = "Date is required"
    /\ (lastAdd.metric.date # "null" /\ lastAdd.metric.resolution \notin {"1", "60", "null"}) =>
         lastAdd.err = "resolution must be one of 1 (high) or 60 seconds (normal)"
    /\ lastAdd.err \in ValidationErrors => lastAdd.id \notin HeldIds(chain)


(* ------------------------------------------------------------------ *)
(* SpecSummary: summary metrics over a range of statistics, with and    *)
(* without samples, and a flush anywhere.                               *)
(* ------------------------------------------------------------------ *)
MaxSummaryAdds == 2
MaxSummarySends == 1

Sums == {0, 1, 12}

Minima == {0, 1}

Maxima == {1, 12}

Counts == {0, 2}

Summary(stats) == Metric("summary", TestCount, "epoch", "60", 0, stats, <<>>)

InitSummary == InitWith({Options(TestNamespace, TRUE)})

PublishSummary ==
  \E sum \in Sums, min \in Minima, max \in Maxima, count \in Counts :
    calls < MaxSummaryAdds /\ Publish(Summary(Stats(sum, min, max, count)), FALSE)

FlushSummary == Len(sends) < MaxSummarySends /\ Flush

NextSummary == PublishSummary \/ FlushSummary

SpecSummary == InitSummary /\ [][NextSummary]_vars

(* ------------------------------------------------------------------ *)
(* C20                                                                  *)
(* ------------------------------------------------------------------ *)

StatisticKeys ==
  {"StatisticValues.Sum", "StatisticValues.Minimum",
   "StatisticValues.Maximum", "StatisticValues.SampleCount"}

\* The statistic pairs of add call id in a data point, in order.
StatisticPairs(seg, id) ==
  SelectSeq(seg.kvs, LAMBDA kv : kv.of = id /\ kv.key \in StatisticKeys)

\* The pairs that serialise these four numbers.
StatisticSet(sum, min, max, count, id) ==
  <<encodeKeyValue("StatisticValues.Sum", NumToString(sum), id),
    encodeKeyValue("StatisticValues.Minimum", NumToString(min), id),
    encodeKeyValue("StatisticValues.Maximum", NumToString(max), id),
    encodeKeyValue("StatisticValues.SampleCount", NumToString(count), id)>>

\* C20: a summary metric is serialised as one data point; with a sample
\* count of 0 its Sum, Minimum, Maximum and SampleCount are all 0 whatever
\* was supplied, and otherwise they are the four supplied values.
C20_Summary ==
  (lastAdd.type = "summary" /\ lastAdd.err = "none") =>
    LET st == lastAdd.metric.stats
        at == {seg \in AllDataPoints : lastAdd.id \in SegmentIds(seg)}
    IN /\ Cardinality(at) = 1
       /\ \A seg \in at :
            StatisticPairs(seg, lastAdd.id) =
              IF st.count = 0
                THEN StatisticSet(0, 0, 0, 0, lastAdd.id)
                ELSE StatisticSet(st.sum, st.min, st.max, st.count, lastAdd.id)

\* A summary without samples, supplied with a sum and a maximum of 12 and
\* a minimum of 1, was accepted after a summary with samples.
C20_Witness ==
  /\ lastAdd.id = 2
  /\ lastAdd.err = "none"
  /\ lastAdd.metric.stats = Stats(12, 1, 12, 0)
  /\ \E seg \in AllDataPoints :
       /\ lastAdd.id \in SegmentIds(seg)
       /\ StatisticPairs(seg, lastAdd.id) = StatisticSet(0, 0, 0, 0, 2)
  /\ \E seg \in AllDataPoints :
       StatisticPairs(seg, 1) = StatisticSet(12, 1, 12, 2, 1)


(* ------------------------------------------------------------------ *)
(* SpecEncode: metrics whose name and dimension carry the characters    *)
(* that the encoding treats specially.                                  *)
(* ------------------------------------------------------------------ *)
MaxEncodeAdds == 2
MaxEncodeSends == 1
MaxTextLen == 2

Alphabet == {"a", "!", "*", "&", "=", "%", "2"}

\* Texts of up to MaxTextLen characters, the other characters that are
\* encoded, and some texts that read like an encoded text.
Texts ==
  UNION {[1..n -> Alphabet] : n \in 1..MaxTextLen}
  \cup {<<"'", "(", ")">>, <<" ", ":">>, <<"%", "2", "1">>, <<"%", "2", "5">>,
        <<"a", "=", "b", "&", "c">>}

DimensionNames == {<<"k">>, <<"&", "=">>}

TextMetric(t, d, v) ==
  Metric("single", Str(t, 1), "epoch", "1", v, Stats(0, 0, 0, 0),
         <<Tag(Str(d, 1), "string", Str(t, 1))>>)

InitEncode == InitWith({Options(TestNamespace, TRUE)})

\* The dimension of the first metric is named k, of the later ones &=.
PublishText ==
  \E t \in Texts, d \in DimensionNames :
    /\ calls < MaxEncodeAdds
    /\ d = <<"k">> <=> calls = 0
    /\ Publish(TextMetric(t, d, calls + 1), FALSE)

FlushEncode == Len(sends) < MaxEncodeSends /\ Flush

NextEncode == PublishText \/ FlushEncode

SpecEncode == InitEncode /\ [][NextEncode]_vars

(* ------------------------------------------------------------------ *)
(* C21                                                                  *)
(* ------------------------------------------------------------------ *)

\* A text repeated rep times.
RECURSIVE Repeat(_, _)
Repeat(t, r) == IF r = 0 THEN <<>> ELSE t \o Repeat(t, r - 1)

\* The key of a pair as the body spells it: the member prefix of its data
\* point and the key.  The keys are literals of the code made of letters,
\* digits and dots; a key is one symbol of the body's text.
BodyKey(n, kv) ==
  IF n = 0 THEN kv.key ELSE "MetricData.member." \o ToString(n) \o "." \o kv.key

\* The pairs a body was built from, in order: key and value given.
RECURSIVE PairsOfKvs(_, _)
PairsOfKvs(n, kvs) ==
  IF kvs = <<>> THEN <<>>
  ELSE <<<<BodyKey(n, Head(kvs)), Repeat(Head(kvs).raw, Head(kvs).val.rep)>>>>
         \o PairsOfKvs(n, Tail(kvs))

RECURSIVE EmittedPairs(_)
EmittedPairs(body) ==
  IF body = <<>> THEN <<>>
  ELSE PairsOfKvs(Head(body).n, Head(body).kvs) \o EmittedPairs(Tail(body))

\* The text of a body: the pairs as key=value, joined by &.
RECURSIVE TextOfKvs(_, _)
TextOfKvs(n, kvs) ==
  IF kvs = <<>> THEN <<>>
  ELSE <<"&", BodyKey(n, Head(kvs)), "=">>
         \o Repeat(Head(kvs).txt, Head(kvs).val.rep)
         \o TextOfKvs(n, Tail(kvs))

RECURSIVE TextOfSegments(_)
TextOfSegments(body) ==
  IF body = <<>> THEN <<>>
  ELSE TextOfKvs(Head(body).n, Head(body).kvs) \o TextOfSegments(Tail(body))

\* The body starts with the first key, without an &.
BodyText(body) == IF body = <<>> THEN <<>> ELSE Tail(TextOfSegments(body))

\* The pieces of a text between the occurrences of a character.
Split(t, c) ==
  LET at == {i \in 1..Len(t) : t[i] = c}
      ends == at \cup {Len(t) + 1}
      starts == at \cup {0}
      start(k) == CHOOSE p \in starts : Cardinality({q \in starts : q < p}) = k - 1
      end(k) == CHOOSE p \in ends : Cardinality({q \in ends : q < p}) = k - 1
  IN IF t = <<>> THEN <<>>
     ELSE [k \in 1..Cardinality(ends) |-> SubSeq(t, start(k) + 1, end(k) - 1)]

\* The character a percent sequence stands for.
Unhex(h, l) ==
  CASE <<h, l>> = <<"2", "0">> -> " "
    [] <<h, l>> = <<"2", "1">> -> "!"
    [] <<h, l>> = <<"2", "5">> -> "%"
    [] <<h, l>> = <<"2", "6">> -> "&"
    [] <<h, l>> = <<"2", "7">> -> "'"
    [] <<h, l>> = <<"2", "8">> -> "("
    [] <<h, l>> = <<"2", "9">> -> ")"
    [] <<h, l>> = <<"2", "A">> -> "*"
    [] <<h, l>> = <<"3", "A">> -> ":"
    [] <<h, l>> = <<"3", "D">> -> "="
    [] OTHER -> "malformed"

\* Percent-decoding of a text.
RECURSIVE PercentDecode(_)
PercentDecode(t) ==
  IF t = <<>> THEN <<>>
  ELSE IF Head(t) = "%"
    THEN IF Len(t) >= 3
           THEN <<Unhex(t[2], t[3])>> \o PercentDecode(SubSeq(t, 4, Len(t)))
           ELSE <<"malformed">>
    ELSE <<Head(t)>> \o PercentDecode(Tail(t))

\* A field key=value parsed: the key, and the value decoded.  A field
\* that is not one key, one = and a value parses to what cannot be a pair.
ParseField(f) ==
  LET parts == Split(f, "=")
  IN IF Len(parts) = 2 /\ Len(parts[1]) = 1
       THEN <<parts[1][1], PercentDecode(parts[2])>>
       ELSE <<"malformed", f>>

ParseBody(t) ==
  LET fields == Split(t, "&")
  IN [i \in 1..Len(fields) |-> ParseField(fields[i])]

\* The characters that may not appear literally in an encoded value.
Reserved == {"!", "'", "(", ")", "*", "&", "=", " ", ":"}

\* The bodies of the accumulators and of the sends.
AllBodies ==
  {chain[i]._body : i \in 1..Len(chain)}
  \cup UNION {{sends[sid].batch[b] : b \in 1..Len(sends[sid].batch)} : sid \in Sids}

\* C21: splitting a body on & and = and percent-decoding the values
\* recovers the pairs it was built from, in order; no encoded value holds
\* one of ! ' ( ) * literally, and no key is empty.
C21_RoundTrip ==
  \A body \in AllBodies :
    /\ ParseBody(BodyText(body)) = EmittedPairs(body)
    /\ \A i \in 1..Len(body) : \A k \in 1..Len(body[i].kvs) :
         LET kv == body[i].kvs[k]
         IN /\ kv.key # ""
            /\ \A j \in 1..Len(kv.txt) : kv.txt[j] \notin Reserved
            /\ kv.val.s = Join(kv.txt)

\* A body holds two data points whose names are !* and a=b&c, the second
\* with a dimension named &=.
C21_Witness ==
  \E body \in AllBodies :
    /\ Len(body) = 3
    /\ body[2].kvs[1].raw = <<"!", "*">>
    /\ body[2].kvs[1].txt = <<"%", "2", "1", "%", "2", "A">>
    /\ body[3].kvs[1].raw = <<"a", "=", "b", "&", "c">>
    /\ \E k \in 1..Len(body[3].kvs) : body[3].kvs[k].raw = <<"&", "=">>


(* ------------------------------------------------------------------ *)
(* C22                                                                  *)
(* ------------------------------------------------------------------ *)

\* The body that send sid is signing, requesting or waiting to retry.
Busy(sid) == sends[sid].phase \in {"refresh", "request", "timer"}

\* At most one request of a send is open, and it is the one the send
\* waits for; a body is signed or requested only when every body before
\* it has had its final outcome, and none after it was requested.
C22_State ==
  \A sid \in Sids :
    LET s == sends[sid]
    IN /\ s.open <= 1
       /\ s.open = 1 <=> s.phase = "request"
       /\ \A b \in 1..Len(s.batch) :
            (s.tries[b] > 0 \/ (Busy(sid) /\ s.cur.batchIndex + 1 = b)) =>
              \A a \in 1..(b - 1) : s.fin[a] /\ s.tries[a] > 0
       /\ Busy(sid) =>
            \A b \in (s.cur.batchIndex + 2)..Len(s.batch) : s.tries[b] = 0 /\ ~s.fin[b]

\* A step makes at most one request per send, of the body the send is at,
\* and never while another request of the send stays open.
C22_Step ==
  \A sid \in Sids :
    LET s == sends[sid]
        t == sends'[sid]
    IN \A b \in 1..Len(s.batch) :
         t.tries[b] # s.tries[b] =>
           /\ t.tries[b] = s.tries[b] + 1
           /\ t.cur.batchIndex + 1 = b
           /\ t.phase = "request"
           /\ t.open = 1
           /\ \A a \in 1..Len(s.batch) : a # b => t.tries[a] = s.tries[a]

\* C22: within one send the bodies are signed and requested one after the
\* other in the order of the batch; at most one request of the send is in
\* flight, and body k+1 is not signed before body k had its final outcome.
C22_Sequential == []C22_State /\ [][C22_Step]_vars

\* The first body timed out and its request was aborted; the second body
\* is in flight and the aborted request has yet to emit its error.
C22_Witness ==
  /\ Len(sends) = 1
  /\ Len(sends[1].batch) = 2
  /\ sends[1].tmo[1] = 2
  /\ sends[1].aborted # NoClosure
  /\ sends[1].phase = "request"
  /\ sends[1].cur.batchIndex = 1
  /\ sends[1].open = 1


(* ------------------------------------------------------------------ *)
(* C23                                                                  *)
(* ------------------------------------------------------------------ *)

\* Every request made was notified once, and every transmission of a body
\* carried the body of its first attempt, the one of the batch.
C23_State ==
  \A sid \in Sids :
    LET s == sends[sid]
    IN /\ s.emits = SumTries(s.tries, Len(s.batch))
       /\ \A b \in 1..Len(s.batch) :
            /\ Len(s.wire[b]) = s.tries[b]
            /\ \A k \in 1..Len(s.wire[b]) :
                 s.wire[b][k] = s.wire[b][1] /\ s.wire[b][k] = s.batch[b]

\* An attempt begins with signing: the retry timer leads to a request
\* only if the credentials are fresh then, and to a credential load
\* otherwise; a request is made with fresh credentials and one
\* notification.
C23_Step ==
  \A sid \in Sids :
    LET s == sends[sid]
        t == sends'[sid]
    IN /\ (s.phase = "timer" /\ t.phase # "timer") =>
            /\ t.cur.attempt = s.cur.attempt + 1
            /\ t.cur.batchIndex = s.cur.batchIndex
            /\ IF hasFreshCredentials(signer)
                 THEN t.phase = "request" /\ t.emits = s.emits + 1
                 ELSE t.phase = "refresh" /\ t.emits = s.emits /\ t.tries = s.tries
       /\ t.emits # s.emits =>
            /\ t.emits = s.emits + 1
            /\ hasFreshCredentials(signer')
            /\ t.tries[t.cur.batchIndex + 1] = s.tries[t.cur.batchIndex + 1] + 1

\* C23: every attempt of a body, retries included, goes through signing
\* first (with a credential load when the credentials are stale), is
\* notified by exactly one 'send' event and transmits the body of the
\* first attempt.
C23_Attempts == []C23_State /\ [][C23_Step]_vars

\* A body was transmitted twice, and its third attempt waits for the
\* credentials that became stale in between.
C23_Witness ==
  /\ Len(sends) = 1
  /\ sends[1].phase = "refresh"
  /\ sends[1].cur.attempt = 3
  /\ Len(sends[1].wire[1]) = 2
  /\ sends[1].emits = 2
  /\ signer = "stale"


(* ------------------------------------------------------------------ *)
(* SpecDimensions: valid metrics with up to MaxTags dimensions, whose   *)
(* values are strings, empty strings or null.                           *)
(* ------------------------------------------------------------------ *)
MaxTags == 3
MaxDimensionAdds == 2
MaxDimensionSends == 1

\* The name of the k-th dimension of a metric.
TagName(k) == Str(<<"d", ToString(k)>>, 1)

\* What the value of a dimension may be: a string, '' or null/undefined.
TagValues ==
  {[vt |-> "string", value |-> Str(<<"v">>, 1)],
   [vt |-> "string", value |-> EmptyStr],
   [vt |-> "null", value |-> EmptyStr]}

\* The tags objects, as their properties in the order of enumeration.
TagLists ==
  UNION {{[k \in 1..n |-> Tag(TagName(k), vs[k].vt, vs[k].value)] :
            vs \in [1..n -> TagValues]} : n \in 0..MaxTags}

\* The stream alternates single and summary metrics.
TaggedMetric(tags, v) ==
  IF v % 2 = 1
    THEN Metric("single", TestCount, "epoch", "60", v, Stats(0, 0, 0, 0), tags)
    ELSE Metric("summary", TestCount, "epoch", "1", 0, Stats(v, 1, v, 2), tags)

InitDimensions == InitWith({Options(TestNamespace, TRUE)})

PublishTagged ==
  \E tags \in TagLists :
    calls < MaxDimensionAdds /\ Publish(TaggedMetric(tags, calls + 1), FALSE)

FlushDimensions == Len(sends) < MaxDimensionSends /\ Flush

NextDimensions == PublishTagged \/ FlushDimensions

SpecDimensions == InitDimensions /\ [][NextDimensions]_vars

(* ------------------------------------------------------------------ *)
(* C24                                                                  *)
(* ------------------------------------------------------------------ *)

\* The keys of a datum that are not of a dimension.
PropKeys ==
  {"MetricName", "Unit", "Timestamp", "StorageResolution", "Value"} \cup StatisticKeys

\* The dimension pairs of add call id in a data point, in order.
DimensionPairs(seg, id) ==
  SelectSeq(seg.kvs, LAMBDA kv : kv.of = id /\ kv.key \notin PropKeys)

\* The dimensions with a value, in the order given.
Retained(tags) ==
  SelectSeq(tags, LAMBDA t : ~(t.vt = "null" \/ IsEmptyStr(t.value)))

\* Name and Value of the dimensions, numbered from 1 without gaps.
Numbered(kept, id) ==
  [j \in 1..(2 * Len(kept)) |->
     LET k == (j + 1) \div 2
     IN IF j % 2 = 1
          THEN encodeKeyValue("Dimensions.member." \o ToString(k) \o ".Name", kept[k].name, id)
          ELSE encodeKeyValue("Dimensions.member." \o ToString(k) \o ".Value", kept[k].value, id)]

\* C24: the dimensions of a datum whose value is null, undefined or ''
\* are dropped; the others are serialised in the order given as
\* Dimensions.member.k.Name and .Value with k = 1, 2, ... without gaps,
\* starting at 1 in every datum.
C24_Dimensions ==
  (lastAdd.type \in {"single", "summary"} /\ lastAdd.err = "none") =>
    \A seg \in AllDataPoints :
      lastAdd.id \in SegmentIds(seg) =>
        DimensionPairs(seg, lastAdd.id) = Numbered(Retained(lastAdd.metric.tags), lastAdd.id)

\* The second datum of a body has three dimensions of which the first is
\* null and the second empty; the first datum kept two.
C24_Witness ==
  /\ lastAdd.id = 2
  /\ lastAdd.err = "none"
  /\ Len(lastAdd.metric.tags) = 3
  /\ lastAdd.metric.tags[1].vt = "null"
  /\ lastAdd.metric.tags[2] = Tag(TagName(2), "string", EmptyStr)
  /\ lastAdd.metric.tags[3].vt = "string" /\ ~IsEmptyStr(lastAdd.metric.tags[3].value)
  /\ \E seg \in AllDataPoints :
       /\ seg.n = 2
       /\ Len(DimensionPairs(seg, 2)) = 2
       /\ DimensionPairs(seg, 2)[1].key = "Dimensions.member.1.Name"
       /\ DimensionPairs(seg, 2)[1].raw = TagName(3).txt
  /\ \E seg \in AllDataPoints : seg.n = 1 /\ Len(DimensionPairs(seg, 1)) = 4


(* ------------------------------------------------------------------ *)
(* C25                                                                  *)
(* ------------------------------------------------------------------ *)

\* C25: after an add call that threw, the _datum array is empty, every
\* data point holds the pairs of one add call only, and a metric that fits
\* in an empty accumulator is accepted.
C25_BufferEmpty ==
  /\ lastAdd.err # "none" => _datum = <<>>
  /\ \A seg \in AllDataPoints : Cardinality(SegmentIds(seg)) = 1
  /\ (lastAdd.id # 0 /\ lastAdd.err = "Datum is too big") => Oversized(lastAdd.metric)

\* A metric that fits in an empty accumulator was rejected as too big,
\* because the _datum array still held the pairs of an earlier rejected
\* metric.
C25_SmallRejected ==
  /\ lastAdd.id # 0
  /\ lastAdd.err = "Datum is too big"
  /\ ~Oversized(lastAdd.metric)
  /\ \E k \in 1..Len(_datum) : _datum[k].of # lastAdd.id


(* ------------------------------------------------------------------ *)
(* C26                                                                  *)
(* ------------------------------------------------------------------ *)

\* An add call that throws 'Datum is too big' changes no accumulator and
\* links none.
C26_Step ==
  (calls' # calls /\ lastAdd'.err = "Datum is too big") => chain' = chain

\* No body of a send is without a data point.
C26_State ==
  \A sid \in Sids : \A b \in 1..Len(sends[sid].batch) :
    DataPoints(sends[sid].batch[b]) # <<>>

\* C26: an add call rejected as 'Datum is too big' leaves the chain of
\* accumulators as it was, and no send posts a body that has the preamble
\* but no data point.
C26_Unchanged == []C26_State /\ [][C26_Step]_vars

\* Under the test namespace a send took nothing but bodies without a data
\* point: the root's and the one of the accumulator that a rejected add
\* had linked.
C26_EmptyBodies ==
  /\ options.namespace = TestNamespace
  /\ Len(sends) = 1
  /\ sends[1].ids = <<>>
  /\ Len(sends[1].batch) = 2
  /\ \A b \in 1..2 : DataPoints(sends[1].batch[b]) = <<>>
  /\ sends[1].phase = "refresh"


(* ------------------------------------------------------------------ *)
(* C27                                                                  *)
(* ------------------------------------------------------------------ *)

\* The callback of a send was called at most once, and once it was called
\* no request of the send is open.
C27_State ==
  \A sid \in Sids :
    /\ sends[sid].doneCalls <= 1
    /\ sends[sid].phase = "done" <=> sends[sid].doneCalls = 1
    /\ sends[sid].doneCalls = 1 => sends[sid].open = 0

\* The step that calls send() does not call the callback, and after the
\* callback was called the send makes no request and no notification and
\* does not call it again.
C27_Step ==
  /\ \A sid \in (Len(sends) + 1)..Len(sends') : sends'[sid].doneCalls = 0
  /\ \A sid \in Sids :
       sends[sid].doneCalls = 1 =>
         /\ sends'[sid].doneCalls = 1
         /\ sends'[sid].phase = "done"
         /\ sends'[sid].result = sends[sid].result
         /\ sends'[sid].tries = sends[sid].tries
         /\ sends'[sid].emits = sends[sid].emits
         /\ sends'[sid].wire = sends[sid].wire

\* C27: whatever the signing results, responses, transport errors,
\* timeouts and late errors of aborted requests, the callback of a send is
\* called at most once, never by the step that calls send(), and after it
\* the send makes no attempt and no 'send' notification.
C27_Once == []C27_State /\ [][C27_Step]_vars

\* The last body timed out, the callback was called with the timeout
\* error, and the aborted request has emitted its error since.
C27_Witness ==
  /\ Len(sends) = 1
  /\ Len(sends[1].batch) = 2
  /\ sends[1].tmo[2] > 0
  /\ sends[1].aborted = NoClosure
  /\ sends[1].doneCalls = 1
  /\ sends[1].result = SocketTimeout


(* ------------------------------------------------------------------ *)
(* Fairness: every credential load and every request yields an outcome, *)
(* and timers and ticks run.                                            *)
(* ------------------------------------------------------------------ *)

\* The credential load of send sid calls back.
LoadYields(sid) ==
  /\ sid \in Sids
  /\ \E outcome \in CredentialOutcomes : RefreshDone(sid, outcome)

\* The request in flight of send sid is answered with 200 or 500.
RequestYields(sid) ==
  /\ sid \in Sids
  /\ \E statusCode \in {200, 500} : Response(sid, statusCode)

\* The request in flight of send sid is answered, fails or times out.
RequestEnds(sid) ==
  /\ sid \in Sids
  /\ \/ \E statusCode \in StatusCodes : Response(sid, statusCode)
     \/ \E code \in ErrorCodes : RequestError(sid, code)
     \/ Timeout(sid)

TimerFires(sid) == sid \in Sids /\ RetryTimer(sid)

TickRuns(sid) == sid \in Sids /\ NextTick(sid)

\* SpecStop: the plugin with one metric, one ping and one stop, under
\* fairness.
MaxStopAdds == 1
MaxStopPings == 1
MaxStopStops == 1

InitStop == InitWith({Options(TestNamespace, TRUE)})

PublishOne == calls < MaxStopAdds /\ Publish(SmallSingle(calls + 1), FALSE)
PingOnce == Len(pings) < MaxStopPings /\ Ping
StopOnce == Len(stops) < MaxStopStops /\ Stop

NextStop ==
  \/ PublishOne \/ PingOnce \/ StopOnce
  \/ Signed \/ Responded \/ Refused \/ Retried \/ Ticked

\* The sends a run can make: one for the ping and one for the stop.
StopSids == 1..(MaxStopPings + MaxStopStops)

SpecStop ==
  /\ InitStop /\ [][NextStop]_vars
  /\ \A sid \in StopSids :
       /\ WF_vars(LoadYields(sid))
       /\ WF_vars(RequestYields(sid))
       /\ WF_vars(TimerFires(sid))
       /\ WF_vars(TickRuns(sid))

RetrySids == 1..MaxRetrySends

SpecRetryFair ==
  /\ SpecRetry
  /\ \A sid \in RetrySids :
       /\ WF_vars(LoadYields(sid))
       /\ WF_vars(RequestEnds(sid))
       /\ WF_vars(TimerFires(sid))
       /\ WF_vars(TickRuns(sid))

(* ------------------------------------------------------------------ *)
(* C28                                                                  *)
(* ------------------------------------------------------------------ *)

\* A send with B bodies makes at most B times MAX_ATTEMPTS requests.
C28_Budget ==
  \A sid \in Sids :
    SumTries(sends[sid].tries, Len(sends[sid].batch))
      <= Len(sends[sid].batch) * MAX_ATTEMPTS

\* C28: when every credential load and every request yields an outcome,
\* every send calls its callback and every stop() calls its callback; a
\* send with B bodies makes at most B times MAX_ATTEMPTS requests.
C28_Terminates ==
  /\ []C28_Budget
  /\ \A sid \in StopSids :
       [](sid \in Sids => <>(sid \in Sids /\ sends[sid].doneCalls = 1))
  /\ \A k \in 1..MaxStopStops :
       [](k <= Len(stops) => <>(k <= Len(stops) /\ stops[k] = 1))

\* Supplement to C28: the same for a send of up to two bodies under every
\* outcome of a request.
C28_SendTerminates ==
  /\ []C28_Budget
  /\ \A sid \in RetrySids :
       [](sid \in Sids => <>(sid \in Sids /\ sends[sid].doneCalls = 1))

\* A stop() that waited for a flush in flight has called back, after a
\* send that used all its attempts.
C28_Witness ==
  /\ stops = <<1>>
  /\ Len(sends) = 2
  /\ Len(sends[1].tries) = 1
  /\ sends[1].tries[1] = MAX_ATTEMPTS
  /\ sends[1].result # Null
  /\ sends[2].phase = "done"
  /\ listeners = <<>>


(* ------------------------------------------------------------------ *)
(* C29                                                                  *)
(* ------------------------------------------------------------------ *)

\* At most one background flush is in progress, and the flag is set
\* exactly while one is.
C29_State ==
  /\ Cardinality(BgInFlight(sends)) <= 1
  /\ _backgroundFlushing = (BgInFlight(sends) # {})

\* The completion of a background flush, with or without error, resets
\* the flag unless a waiting stop() starts its flush at once; a ping that
\* finds data and no background flush in progress starts one.
C29_Step ==
  /\ \A sid \in BgInFlight(sends) :
       sends'[sid].phase = "done" =>
         /\ sends'[sid].doneCalls = 1
         /\ _backgroundFlushing' = (Len(sends') > Len(sends))
         /\ Len(sends') > Len(sends) =>
              \E j \in 1..Len(listeners) : listeners[j].kind = "stop"
  /\ (Len(pings') > Len(pings) /\ hasData(chain[1]) /\ BgInFlight(sends) = {}) =>
       /\ ~_backgroundFlushing
       /\ StartsFlush
       /\ _backgroundFlushing'

\* C29: at most one background flush is in progress at a time, the flag
\* _backgroundFlushing is true exactly while one is, and it is reset when
\* the flush completes, failed or not, so that a later ping that finds
\* data starts a new flush.
C29_OneFlush == []C29_State /\ [][C29_Step]_vars

\* A background flush failed and emitted its error; a later ping found
\* data and started the flush now in progress.
C29_Witness ==
  /\ Len(sends) = 2
  /\ sends[1].done = "bg" /\ sends[1].result # Null
  /\ Len(emitted) = 1
  /\ stops = <<>>
  /\ Len(pings) >= 2 /\ pings[Len(pings)] = 2
  /\ BgInFlight(sends) = {2}
  /\ _backgroundFlushing

====
